---- MODULE Spec2Model ----
(***************************************************************************)
(* Model of package pas (Promise / Async / Sync).                          *)
(*                                                                         *)
(* The promise is the struct {value, ready chan, once sync.Once}.  The     *)
(* runner is Async / Sync / executeFunction of the revision with the       *)
(* optional trailing mode flag and the deferred recover.  The exported     *)
(* Resolve and NewPending of the revision that exports them are the        *)
(* caller operations ResolveWrite / ResolveSkip / ResolveClose and         *)
(* NewPending; the unexported resolve is what the spawned unit runs.       *)
(*                                                                         *)
(* Spec        the promise alone: New, NewPending, Resolve, Get.           *)
(* SpecLog     Spec, with the history of the completed Resolve calls.      *)
(* SpecFair    Spec, with a fair scheduler for the blocked readers.        *)
(* SpecSealed  Async and Sync; resolve and newPending are unexported.      *)
(* SpecOpen    Async and Sync with the exported Resolve and NewPending.    *)
(* SpecScript  the fixed programs of one main routine (SpecScriptFair:     *)
(*             with a fair scheduler of its units).                        *)
(* SpecResolve the resolver of the arguments, over values.                 *)
(* SpecHeap    the resolver of the arguments, over the objects it reads    *)
(*             and allocates.                                              *)
(***************************************************************************)
EXTENDS Integers, Sequences, FiniteSets, TLC

\* ---------------------------------------------------------------- bounds
MaxPromises == 2
MaxVal == 1
NumCallers == 3
MaxLog == 2
\* The number of Async calls that share one upstream promise, and the length
\* of the slice of promises, in the fixed programs.
FanOut == 2
SliceLen == 2

\* The ints of the resolver's arguments are 1..MaxInt; slices and maps have up
\* to MaxElems elements, arrays 1..MaxElems; MaxIds promises with the same
\* payload are told apart as keys of a map.
MaxInt == 2
MaxElems == 2
MaxIds == 2

\* for i := 1; i <= 3; i++ in TestAsync: the length of the chain it builds.
ChainLen == 3

\* The promises a fixed program of Main allocates at most: TestAsync builds
\* New(0) and two promises per turn of its loop.
ScriptPromises == 1 + 2 * ChainLen
ScriptIds == 1..ScriptPromises

\* Promises are numbered from 1; the callers' units follow them.  The unit a
\* promise's number names is the one Async spawned for it.
PromiseIds == 1..MaxPromises
Values == 0..MaxVal
Callers == (MaxPromises + ScriptPromises + 1)..(MaxPromises + ScriptPromises + NumCallers)
\* The unit that calls Async and Sync.
Main == MaxPromises + ScriptPromises + 1
Units == Callers \cup PromiseIds

\* ------------------------------------------------------- argument values
\* An argument handed to Async / Sync as interface{}: an int, a *Promise[int]
\* or a bool.
IntV(n) == [k |-> "int", n |-> n]
PromV(p) == [k |-> "promise", n |-> p]
BoolV(b) == [k |-> "bool", n |-> IF b THEN 1 ELSE 0]

\* A slice handed over as one argument, e.g. a []*Promise[int]: n holds its
\* elements, ints and promises.
SliceV(elems) == [k |-> "slice", n |-> elems]

IsPromise(a) == a.k = "promise"
IsBool(a) == a.k = "bool"
IsSlice(a) == a.k = "slice"

\* The zero value of T for Promise[int].
ZeroValue == 0

\* No promise, no result: a number that is neither.
None == ZeroValue - 1

VARIABLES
    nextId,     \* the next promise to allocate; 1..nextId-1 are allocated
    value,      \* value[p]: Promise.value
    ready,      \* ready[p]: TRUE iff the channel Promise.ready is closed
    once,       \* once[p]: state of Promise.once: "idle", "running", "done"
    origin,     \* history: which constructor built p, and New's values
    first,      \* history: the value of the first call that ran the once body
    resolved,   \* history: values of the completed Resolve calls on p, in order
    caller,     \* caller[c]: the caller's position and the operation's locals
    exec,       \* exec[u]: the executeFunction frame of unit u
    script,     \* the program the unit Main runs, if it runs a fixed one
    rv          \* the call of the resolver on one argument, if one is followed

vars == <<nextId, value, ready, once, origin, first, resolved, caller, exec, script, rv>>

Allocated == 1..(nextId - 1)

\* ------------------------------------------------------------ caller state
RestPc == {"idle", "returned", "panicked"}

AtRest(c) == caller[c].pc \in RestPc

\* pc: where the caller is; op: the operation it is in, or the Get, Sync or
\* panicking operation it made last; p: the promise the operation is applied
\* to; v: the argument of Resolve; ret: what the operation returned; err: the
\* panic that ended it.
IdleCaller ==
    [pc |-> "idle", op |-> "none", p |-> None, v |-> None, ret |-> None, err |-> "none"]

Busy(pc, op, p, v) ==
    [pc |-> pc, op |-> op, p |-> p, v |-> v, ret |-> None, err |-> "none"]

Returned(op, p, ret) ==
    [pc |-> "returned", op |-> op, p |-> p, v |-> None, ret |-> ret, err |-> "none"]

Panicked(op, p, err) ==
    [pc |-> "panicked", op |-> op, p |-> p, v |-> None, ret |-> None, err |-> err]

NoFrame == [pc |-> "none", f |-> "none", rec |-> FALSE, args |-> <<>>,
            res |-> <<>>, out |-> None, err |-> "none"]

\* No call of the resolver is followed on its own.
NoResolve == [pc |-> "none"]

\* Main runs no fixed program: its operations are chosen step by step.
NoScript == [name |-> "none", f |-> "none", args |-> <<>>]

\* ------------------------------------------------------------------- Init
Init ==
    /\ nextId = 1
    /\ value = [p \in PromiseIds |-> ZeroValue]
    /\ ready = [p \in PromiseIds |-> FALSE]
    /\ once = [p \in PromiseIds |-> "idle"]
    /\ origin = [p \in PromiseIds |-> [kind |-> "none", values |-> <<>>]]
    /\ first = [p \in PromiseIds |-> None]
    /\ resolved = [p \in PromiseIds |-> <<>>]
    /\ caller = [c \in Callers |-> IdleCaller]
    /\ exec = [u \in Units |-> NoFrame]
    /\ script = NoScript
    /\ rv = NoResolve

\* ------------------------------------------------------------- sync.Once
\* once.Do(f) runs f iff no call has run it before; a call arriving while f
\* runs waits for it to finish and then returns.
\* (Variant: a guard that lets every call run the body.)
GuardOpen(p) == TRUE

\* (Variant: one once-guard for all promises.)
SharedGuard(p) == \A q \in DOMAIN once : once[q] = "idle"

OnceFree(p) == once[p] = "idle"
OnceDone(p) == once[p] = "done"

\* (Variant: the store made outside the guard, which stays free.)
BodyUnguarded(p, v) ==
    /\ value' = [value EXCEPT ![p] = v]
    /\ once' = once
    /\ first' = [first EXCEPT ![p] = IF first[p] = None THEN v ELSE first[p]]

\* The body Resolve / resolve hands to once.Do, first statement: p.value = value.
\* The guard's mutex is held from here until the channel is closed.
OnceBody(p, v) ==
    /\ value' = [value EXCEPT ![p] = v]
    /\ once' = [once EXCEPT ![p] = "running"]
    /\ first' = [first EXCEPT ![p] = IF first[p] = None THEN v ELSE first[p]]

\* (Variant: the guard is marked done and the channel is left open.)
GuardDoneOnly(p) ==
    /\ once' = [once EXCEPT ![p] = "done"]
    /\ UNCHANGED ready

\* ... second statement: close(p.ready); then the guard is marked done.
\* Closing a closed channel panics.
CloseReady(p) ==
    /\ ready' = [ready EXCEPT ![p] = TRUE]
    /\ once' = [once EXCEPT ![p] = "done"]

\* (Variant: a receive that never waits.)
ReadableAtOnce(p) == TRUE

\* <-p.ready: a receive from the channel returns only once it is closed.
Readable(p) == ready[p]


\* ---------------------------------------------------------------- Promise
\* The values New accepts: New(), New(v), New(v1, v2).
NewValues ==
    {<<>>} \cup {<<v>> : v \in Values} \cup {<<v, w>> : v \in Values, w \in Values}

\* (Variant: New keeps none of its values.)
StoredNothing(values) == ZeroValue

\* The value New stores: the zero value when none is given.
NewStored(values) == IF Len(values) = 0 THEN ZeroValue ELSE values[1]

\* (Variant: New takes any number of values.)
AnyArity(values) == TRUE

\* New: allocate, store the value, close ready through the once-guard.
\* More than one value panics before anything is returned.
NewArityOk(values) == Len(values) <= 1

\* (Variants: the channel left open by New, the channel closed when made.)
ChannelOpen == FALSE
ChannelClosed == TRUE

\* close(p.ready) in New: the promise New returns has its channel closed.
NewReady == TRUE

\* (Variant: New closes ready outside the guard, which stays unused.)
GuardUnused == "idle"

\* New closes ready inside p.once.Do, which uses the guard up.
OnceAfterNew == "done"

New(c, values) ==
    /\ AtRest(c)
    /\ IF NewArityOk(values)
       THEN /\ nextId \in DOMAIN value
            /\ value' = [value EXCEPT ![nextId] = NewStored(values)]
            /\ ready' = [ready EXCEPT ![nextId] = NewReady]
            /\ once' = [once EXCEPT ![nextId] = OnceAfterNew]
            /\ origin' = [origin EXCEPT ![nextId] = [kind |-> "New", values |-> values]]
            /\ first' = [first EXCEPT ![nextId] = NewStored(values)]
            /\ caller' = [caller EXCEPT ![c] = IdleCaller]
            /\ nextId' = nextId + 1
       ELSE /\ caller' = [caller EXCEPT ![c] =
                  Panicked("New", None, "New: expected at most one value")]
            /\ UNCHANGED <<nextId, value, ready, once, origin, first>>
    /\ UNCHANGED <<resolved, exec, script, rv>>

\* make(chan struct{}): the channel of a pending promise is open.
PendingReady == FALSE

\* NewPending / newPending: a promise with an open channel and no value.
NewPending(c) ==
    /\ AtRest(c)
    /\ nextId \in DOMAIN value
    /\ value' = [value EXCEPT ![nextId] = ZeroValue]
    /\ ready' = [ready EXCEPT ![nextId] = PendingReady]
    /\ origin' = [origin EXCEPT ![nextId] = [kind |-> "NewPending", values |-> <<>>]]
    /\ caller' = [caller EXCEPT ![c] = IdleCaller]
    /\ nextId' = nextId + 1
    /\ UNCHANGED <<once, first, resolved, exec, script, rv>>

\* Resolve(v): the call ...
ResolveCall(c, p, v) ==
    /\ AtRest(c)
    /\ p \in Allocated
    /\ caller' = [caller EXCEPT ![c] = Busy("ResolveCall", "Resolve", p, v)]
    /\ UNCHANGED <<nextId, value, ready, once, origin, first, resolved, exec, script, rv>>

\* ... which wins the once-guard and stores v ...
ResolveWrite(c) ==
    /\ caller[c].pc = "ResolveCall"
    /\ OnceFree(caller[c].p)
    /\ OnceBody(caller[c].p, caller[c].v)
    /\ caller' = [caller EXCEPT ![c] = [@ EXCEPT !.pc = "ResolveClose"]]
    /\ UNCHANGED <<nextId, ready, origin, resolved, exec, script, rv>>

\* ... and closes ready, which ends the call;
ResolveClose(c) ==
    /\ caller[c].pc = "ResolveClose"
    /\ IF ready[caller[c].p]
       THEN /\ caller' = [caller EXCEPT ![c] =
                  Panicked("Resolve", caller[c].p, "close of closed channel")]
            /\ once' = [once EXCEPT ![caller[c].p] = "done"]
            /\ UNCHANGED ready
       ELSE /\ CloseReady(caller[c].p)
            /\ caller' = [caller EXCEPT ![c] = IdleCaller]
    /\ UNCHANGED <<nextId, value, origin, first, exec, script, rv>>

\* or which finds the once-guard used up, and does nothing.
ResolveSkip(c) ==
    /\ caller[c].pc = "ResolveCall"
    /\ OnceDone(caller[c].p)
    /\ caller' = [caller EXCEPT ![c] = IdleCaller]
    /\ UNCHANGED <<nextId, value, ready, once, origin, first, exec, script, rv>>

\* History: the argument of a Resolve call is appended when the call returns.
NoLog == UNCHANGED resolved

LogResolve(c) ==
    resolved' = IF caller'[c].pc = "idle" /\ Len(resolved[caller[c].p]) < MaxLog
                THEN [resolved EXCEPT ![caller[c].p] = Append(@, caller[c].v)]
                ELSE resolved

\* Get: the call, then the receive from ready and the read of value.
GetCall(c, p) ==
    /\ AtRest(c)
    /\ p \in Allocated
    /\ caller' = [caller EXCEPT ![c] = Busy("Get", "Get", p, None)]
    /\ UNCHANGED <<nextId, value, ready, once, origin, first, resolved, exec, script, rv>>

GetReturn(c) ==
    /\ caller[c].pc = "Get"
    /\ Readable(caller[c].p)
    /\ caller' = [caller EXCEPT ![c] = Returned("Get", caller[c].p, value[caller[c].p])]
    /\ UNCHANGED <<nextId, value, ready, once, origin, first, resolved, exec, script, rv>>

\* ----------------------------------------------------------------- workers
\* The functions handed to Async / Sync: Square and Add of the tests, a worker
\* that panics, a function with two results, and a value that is no function.
Funcs == {"Square", "Add", "Boom", "TwoOut", "NotFunc"}

\* reflect.ValueOf(f).Kind() == reflect.Func
IsFunc(f) == f # "NotFunc"

\* The functions of the fixed programs: those, SumSlice of the tests, and a
\* function whose one result is not of the type T the call names.
ScriptFuncs == Funcs \cup {"SumSlice", "Text"}

\* ft.NumIn(), ft.NumOut()
NumIn(f) == CASE f = "Square" -> 1 [] f = "Add" -> 2 [] f = "SumSlice" -> 1 [] OTHER -> 0
NumOut(f) == IF f = "TwoOut" THEN 2 ELSE 1

\* ft.In(i): the parameters of SumSlice are []int, all others are int.
ParamKind(f) == IF f = "SumSlice" THEN "slice" ELSE "int"

\* A variant of ResultOk in which the result's type is never asserted.
AnyResult(f) == TRUE

\* results[0].Interface().(T): the result of Text is no int.
ResultOk(f) == f # "Text"

RECURSIVE SumOf(_)
SumOf(xs) == IF xs = <<>> THEN 0 ELSE xs[1].n + SumOf(Tail(xs))

\* Whether the call of f panics, and what it returns otherwise.
Panics(f) == f = "Boom"
Call(f, a) == CASE f = "Square" -> a[1].n * a[1].n
                [] f = "Add" -> a[1].n + a[2].n
                [] f = "SumSlice" -> SumOf(a[1].n)
                [] OTHER -> 0

\* ------------------------------------------------------------ Async / Sync
\* The argument lists a caller may pass for f: the int 1 or an allocated promise
\* per parameter; the same followed by a flag, or by one more int; the same
\* with a bool as the last parameter; the same with the last one left out.
ArgInts == {IntV(1)}

PlainVals == ArgInts \cup {PromV(p) : p \in Allocated}

Exact(f) == [1..NumIn(f) -> PlainVals]

ArgLists(f) ==
    Exact(f)
    \cup {Append(a, BoolV(b)) : a \in Exact(f), b \in BOOLEAN}
    \cup {Append(a, IntV(0)) : a \in Exact(f)}
    \cup {[a EXCEPT ![Len(a)] = BoolV(TRUE)] : a \in {x \in Exact(f) : Len(x) > 0}}
    \cup {SubSeq(a, 1, Len(a) - 1) : a \in {x \in Exact(f) : Len(x) > 0}}

\* (Variant: any trailing bool is taken for the flag.)
LastIsBool(f, args) == Len(args) > 0 /\ IsBool(args[Len(args)])

\* The trailing flag: one more argument than f has parameters, the last a bool.
HasFlag(f, args) == Len(args) = NumIn(f) + 1 /\ IsBool(args[Len(args)])

\* var recursive bool; recursive = flag
Recursive(f, args) == IF HasFlag(f, args) THEN args[Len(args)].n = 1 ELSE FALSE

\* args = args[:len(args)-1]
Stripped(f, args) == IF HasFlag(f, args) THEN SubSeq(args, 1, Len(args) - 1) ELSE args

Frame(f, args) ==
    [pc |-> "resolve", f |-> f, rec |-> Recursive(f, args), args |-> Stripped(f, args),
     res |-> <<>>, out |-> None, err |-> "none"]

\* (Variant: Async and Sync check nothing themselves.)
Unchecked(f, args) == "none"

\* What the checks Async and Sync make themselves report, "none" when they pass.
CallSiteError(f, args) ==
    IF ~IsFunc(f) THEN "expected a function"
    ELSE IF Len(Stripped(f, args)) # NumIn(f) THEN "wrong argument count"
    ELSE "none"

\* Async: validate, create the pending promise, start the unit, return.
AsyncCall(c, f, args) ==
    /\ AtRest(c)
    /\ IF CallSiteError(f, args) # "none"
       THEN /\ caller' = [caller EXCEPT ![c] = Panicked("Async", None, CallSiteError(f, args))]
            /\ UNCHANGED <<nextId, value, ready, origin, exec>>
       ELSE /\ nextId \in DOMAIN value
            /\ value' = [value EXCEPT ![nextId] = ZeroValue]
            /\ ready' = [ready EXCEPT ![nextId] = PendingReady]
            /\ origin' = [origin EXCEPT ![nextId] = [kind |-> "Async", values |-> <<>>]]
            /\ exec' = [exec EXCEPT ![nextId] = Frame(f, args)]
            /\ caller' = [caller EXCEPT ![c] = IdleCaller]
            /\ nextId' = nextId + 1
    /\ UNCHANGED <<once, first, resolved, script, rv>>

\* Sync: validate, then run executeFunction on the caller's own unit.
SyncCall(c, f, args) ==
    /\ AtRest(c)
    /\ IF CallSiteError(f, args) # "none"
       THEN /\ caller' = [caller EXCEPT ![c] = Panicked("Sync", None, CallSiteError(f, args))]
            /\ UNCHANGED exec
       ELSE /\ exec' = [exec EXCEPT ![c] = Frame(f, args)]
            /\ caller' = [caller EXCEPT ![c] = Busy("Sync", "Sync", None, None)]
    /\ UNCHANGED <<nextId, value, ready, once, origin, first, resolved, script, rv>>

\* -------------------------------------------------------- executeFunction
\* (Variant: after a failure the unit starts the call over.)
FailRetries(u, err) ==
    /\ exec' = [exec EXCEPT ![u] = [@ EXCEPT !.res = <<>>, !.err = err]]
    /\ UNCHANGED caller

\* (Variant: a failure of Sync is swallowed and the zero value returned.)
FailSwallowed(u, err) ==
    IF u \in Callers
    THEN /\ caller' = [caller EXCEPT ![u] = Returned("Sync", None, ZeroValue)]
         /\ exec' = [exec EXCEPT ![u] = NoFrame]
    ELSE /\ exec' = [exec EXCEPT ![u] = [NoFrame EXCEPT !.pc = "recovered", !.err = err]]
         /\ UNCHANGED caller

\* (Variant: no deferred recover in the spawned unit; its panic ends the
\* program, whatever Main is doing.)
FailCrashes(u, err) ==
    IF u \in Callers
    THEN /\ caller' = [caller EXCEPT ![u] = Panicked("Sync", None, err)]
         /\ exec' = [exec EXCEPT ![u] = NoFrame]
    ELSE /\ exec' = [exec EXCEPT ![u] = [NoFrame EXCEPT !.pc = "recovered", !.err = err]]
         /\ caller' = [caller EXCEPT ![Main] = Panicked(caller[Main].op, None, err)]

\* A panic inside executeFunction: the deferred recover of the spawned unit
\* swallows it and the unit ends; on a caller's unit it ends the Sync call.
Fail(u, err) ==
    IF u \in Callers
    THEN /\ caller' = [caller EXCEPT ![u] = Panicked("Sync", None, err)]
         /\ exec' = [exec EXCEPT ![u] = NoFrame]
    ELSE /\ exec' = [exec EXCEPT ![u] = [NoFrame EXCEPT !.pc = "recovered", !.err = err]]
         /\ UNCHANGED caller

\* The check executeFunction makes before it touches an argument: f has
\* exactly one result.  (That f is a function of len(args) parameters was
\* checked by Async / Sync.)  A passed check is part of the unit's next step.
ValidateError(f) == IF NumOut(f) # 1 THEN "must have exactly one return value" ELSE "none"

ExecValidate(u) ==
    /\ exec[u].pc = "resolve"
    /\ exec[u].res = <<>>
    /\ ValidateError(exec[u].f) # "none"
    /\ Fail(u, ValidateError(exec[u].f))
    /\ UNCHANGED <<nextId, value, ready, once, origin, first, resolved, script, rv>>

\* (Variant: a promise is replaced by the zero value, not by what it holds.)
Unresolved(a) == IF IsPromise(a) THEN IntV(ZeroValue) ELSE a

\* shallowResolve / resolveValue on one argument whose parameter type is int:
\* a promise is waited for and replaced by its value, anything else is kept.
ResolveArg(a) == IF IsPromise(a) THEN IntV(value[a.n]) ELSE a

\* AssignableTo / ConvertibleTo the parameter type int.
Fits(a) == a.k = "int"

\* resolveValue on an argument whose parameter type is a slice of int: each
\* element is resolved in turn and a new slice is built of the results.
DeepArg(kind, a) ==
    IF kind = "slice" /\ IsSlice(a)
    THEN SliceV([i \in 1..Len(a.n) |-> ResolveArg(a.n[i])])
    ELSE ResolveArg(a)

\* The argument as the chosen mode resolves it.
Resolved(rec, kind, a) == IF rec THEN DeepArg(kind, a) ELSE ResolveArg(a)

\* The promises whose readiness the resolution of the argument waits for.
Awaited(rec, kind, a) ==
    IF IsPromise(a) THEN {a.n}
    ELSE IF rec /\ kind = "slice" /\ IsSlice(a)
         THEN {a.n[i].n : i \in {j \in 1..Len(a.n) : IsPromise(a.n[j])}}
         ELSE {}

\* AssignableTo / ConvertibleTo the parameter type: an int, or a slice of ints.
FitsKind(kind, a) ==
    IF kind = "slice"
    THEN IsSlice(a) /\ \A i \in 1..Len(a.n) : Fits(a.n[i])
    ELSE Fits(a)

\* One turn of the loop over args: resolve argument Len(res) + 1.
ExecResolveArg(u) ==
    /\ exec[u].pc = "resolve"
    /\ ValidateError(exec[u].f) = "none"
    /\ Len(exec[u].res) < Len(exec[u].args)
    /\ LET a == exec[u].args[Len(exec[u].res) + 1]
           kind == ParamKind(exec[u].f)
           r == Resolved(exec[u].rec, kind, a)
       IN
       /\ \A p \in Awaited(exec[u].rec, kind, a) : Readable(p)
       /\ IF FitsKind(kind, r)
          THEN /\ exec' = [exec EXCEPT ![u] = [@ EXCEPT !.res = Append(@, r)]]
               /\ UNCHANGED caller
          ELSE Fail(u, IF exec[u].rec THEN "error resolving argument"
                       ELSE "argument has wrong type")
    /\ UNCHANGED <<nextId, value, ready, once, origin, first, resolved, script, rv>>

\* fv.Call(resolvedArgs) and the assertion of the result's type; Sync returns
\* the output, the spawned unit goes on to resolve its promise with it.
ExecCall(u) ==
    /\ exec[u].pc = "resolve"
    /\ ValidateError(exec[u].f) = "none"
    /\ Len(exec[u].res) = Len(exec[u].args)
    /\ IF Panics(exec[u].f)
       THEN Fail(u, "worker panicked")
       ELSE IF ~ResultOk(exec[u].f)
       THEN Fail(u, "return type does not match")
       ELSE IF u \in Callers
            THEN /\ caller' = [caller EXCEPT ![u] =
                       Returned("Sync", None, Call(exec[u].f, exec[u].res))]
                 /\ exec' = [exec EXCEPT ![u] = NoFrame]
            ELSE /\ exec' = [exec EXCEPT ![u] =
                       [NoFrame EXCEPT !.pc = "called", !.out = Call(exec[u].f, exec[u].res)]]
                 /\ UNCHANGED caller
    /\ UNCHANGED <<nextId, value, ready, once, origin, first, resolved, script, rv>>

\* p.resolve(output) on the spawned unit, the call that wins the once-guard.
TaskResolveWrite(p) ==
    /\ exec[p].pc = "called"
    /\ OnceFree(p)
    /\ OnceBody(p, exec[p].out)
    /\ exec' = [exec EXCEPT ![p] = [@ EXCEPT !.pc = "closing"]]
    /\ UNCHANGED <<nextId, ready, origin, resolved, caller, script, rv>>

TaskResolveClose(p) ==
    /\ exec[p].pc = "closing"
    /\ IF ready[p]
       THEN /\ exec' = [exec EXCEPT ![p] =
                  [NoFrame EXCEPT !.pc = "recovered", !.err = "close of closed channel"]]
            /\ once' = [once EXCEPT ![p] = "done"]
            /\ UNCHANGED ready
       ELSE /\ CloseReady(p)
            /\ exec' = [exec EXCEPT ![p] = [NoFrame EXCEPT !.pc = "done"]]
    /\ UNCHANGED <<nextId, value, origin, first, resolved, caller, script, rv>>

\* p.resolve(output) when the once-guard is used up: nothing happens.
TaskResolveSkip(p) ==
    /\ exec[p].pc = "called"
    /\ OnceDone(p)
    /\ exec' = [exec EXCEPT ![p] = [NoFrame EXCEPT !.pc = "done"]]
    /\ UNCHANGED <<nextId, value, ready, once, origin, first, resolved, caller, script, rv>>

\* ------------------------------------------------------------------- Next
\* The steps of the units executeFunction runs on.
ExecStep ==
    \/ \E u \in Units : ExecValidate(u)
    \/ \E u \in Units : ExecResolveArg(u)
    \/ \E u \in Units : ExecCall(u)
    \/ \E p \in PromiseIds : TaskResolveWrite(p)
    \/ \E p \in PromiseIds : TaskResolveClose(p)

\* The promise operations of the callers; the history is kept or not.
PromiseStep(S) ==
    \/ \E c \in S, values \in NewValues : New(c, values)
    \/ \E c \in S : NewPending(c)
    \/ \E c \in S, p \in PromiseIds : GetCall(c, p)
    \/ \E c \in S : GetReturn(c)
    \/ \E c \in S, p \in PromiseIds, v \in Values : ResolveCall(c, p, v)
    \/ \E c \in S : ResolveWrite(c)

Next ==
    \/ PromiseStep(Callers)
    \/ \E c \in Callers : ResolveClose(c) /\ NoLog
    \/ \E c \in Callers : ResolveSkip(c) /\ NoLog

\* The callers whose Resolve calls the history records.
LogCallers == {Main, Main + 1}

NextLog ==
    \/ PromiseStep(LogCallers)
    \/ \E c \in LogCallers : ResolveClose(c) /\ LogResolve(c)
    \/ \E c \in LogCallers : ResolveSkip(c) /\ LogResolve(c)

\* Spec: the promise alone, every caller using New, NewPending, Resolve, Get.
Spec == Init /\ [][Next]_vars

SpecLog == Init /\ [][NextLog]_vars

\* A reader whose receive from ready can proceed does proceed.
SpecFair == Spec /\ \A c \in Callers : WF_vars(GetReturn(c))

\* The operations of the unit Main in the specifications with Async and Sync.
SealedFuncs == Funcs
OpenFuncs == Funcs \ {"Add"}

MainSealedStep ==
    \/ \E values \in NewValues : New(Main, values)
    \/ \E p \in PromiseIds : GetCall(Main, p)
    \/ GetReturn(Main)
    \/ \E f \in SealedFuncs : \E args \in ArgLists(f) : AsyncCall(Main, f, args)
    \/ \E f \in SealedFuncs : \E args \in ArgLists(f) : SyncCall(Main, f, args)

MainOpenStep ==
    \/ \E values \in NewValues : New(Main, values)
    \/ \E p \in PromiseIds : GetCall(Main, p)
    \/ GetReturn(Main)
    \/ \E f \in OpenFuncs : \E args \in ArgLists(f) : AsyncCall(Main, f, args)
    \/ \E f \in OpenFuncs : \E args \in ArgLists(f) : SyncCall(Main, f, args)
    \/ NewPending(Main)
    \/ \E p \in PromiseIds, v \in Values : ResolveCall(Main, p, v)
    \/ ResolveWrite(Main)
    \/ ResolveClose(Main) /\ NoLog
    \/ ResolveSkip(Main) /\ NoLog
    \/ \E p \in PromiseIds : TaskResolveSkip(p)

\* SpecSealed: Async and Sync with resolve and newPending unexported; only
\* the spawned unit resolves the promise Async returned.
NextSealed == MainSealedStep \/ ExecStep

SpecSealed == Init /\ [][NextSealed]_vars

\* SpecOpen: Async and Sync together with the exported Resolve and NewPending.
NextOpen == MainOpenStep \/ ExecStep

SpecOpen == Init /\ [][NextOpen]_vars

\* --------------------------------------------------------- fixed programs
\* A fixed program of Main: the calls that allocate its promises, in order
\* (promise j is the one call j builds), then at most one Sync call, then at
\* most one Get.  A panic in Main ends the program.
Instr(op, f, args) == [op |-> op, f |-> f, args |-> args]

NoInstr == Instr("none", "none", <<>>)

Program(name, setup, sync, get) ==
    [name |-> name, f |-> sync.f, args |-> sync.args,
     setup |-> setup, sync |-> sync.op, get |-> get]

\* TestAsync: p := New(0); for i := 1..3 { sq := Async(Square, i);
\* p = Async(Add, p, sq) }; p.Get().
TestAsyncSetup ==
    [j \in 1..(1 + 2 * ChainLen) |->
        IF j = 1 THEN Instr("New", "none", <<IntV(0)>>)
        ELSE IF j % 2 = 0 THEN Instr("Async", "Square", <<IntV(j \div 2)>>)
        ELSE Instr("Async", "Add", <<PromV(j - 2), PromV(j - 1)>>)]

TestAsync == Program("TestAsync", TestAsyncSetup, NoInstr, 1 + 2 * ChainLen)

\* Sync(Add, Async(Square, 3), Async(Square, 4)).
SumOfSquares ==
    Program("SumOfSquares",
            <<Instr("Async", "Square", <<IntV(3)>>), Instr("Async", "Square", <<IntV(4)>>)>>,
            Instr("Sync", "Add", <<PromV(1), PromV(2)>>), None)

\* up := Async(Square, 2), then FanOut calls Async(Square, up).
FanOutProgram ==
    Program("FanOut",
            [j \in 1..(1 + FanOut) |->
                IF j = 1 THEN Instr("Async", "Square", <<IntV(2)>>)
                ELSE Instr("Async", "Square", <<PromV(1)>>)],
            NoInstr, None)

\* TestSliceOfPromises: arr[i] = Async(Square, i) for i from 0, then
\* Sync(SumSlice, arr); the same with the flag true and the flag false.
SliceSetup == [j \in 1..SliceLen |-> Instr("Async", "Square", <<IntV(j - 1)>>)]

SliceOfPromises == SliceV([j \in 1..SliceLen |-> PromV(j)])

SlicePrograms ==
    {Program("Slice", SliceSetup, Instr("Sync", "SumSlice", args), None) :
        args \in {<<SliceOfPromises>>,
                  <<SliceOfPromises, BoolV(TRUE)>>,
                  <<SliceOfPromises, BoolV(FALSE)>>}}

\* One call with arguments of every form: promise 1 is Async(Square, 2) and
\* promise 2 is New(3); then q := Async(f, args), Sync(f, args) and q.Get(),
\* or Sync(f, args) alone.
CallSetup == <<Instr("Async", "Square", <<IntV(2)>>), Instr("New", "none", <<IntV(3)>>)>>

CallVals == {IntV(1), PromV(1), PromV(2)}

CallFuncs == ScriptFuncs \ {"SumSlice"}

CallExact(f) == [1..NumIn(f) -> CallVals]

CallArgLists(f) ==
    CallExact(f)
    \cup {Append(a, BoolV(b)) : a \in CallExact(f), b \in BOOLEAN}
    \cup {Append(a, IntV(0)) : a \in CallExact(f)}
    \cup {[a EXCEPT ![Len(a)] = BoolV(TRUE)] : a \in {x \in CallExact(f) : Len(x) > 0}}
    \cup {SubSeq(a, 1, Len(a) - 1) : a \in {x \in CallExact(f) : Len(x) > 0}}

CallPrograms ==
    UNION {{Program("Call", Append(CallSetup, Instr("Async", f, args)),
                    Instr("Sync", f, args), Len(CallSetup) + 1),
            Program("SyncOnly", CallSetup, Instr("Sync", f, args), None),
            Program("Read", Append(CallSetup, Instr("Async", f, args)),
                    NoInstr, Len(CallSetup) + 1)} :
           f \in CallFuncs, args \in UNION {CallArgLists(g) : g \in CallFuncs}}

\* A chain behind a call that fails: p := Async(g) with g a worker that
\* panics, returns no int or has two results; q := Async(Square, p);
\* r := Async(Square, q); then one Sync call that takes one of the three, alone
\* or next to an int or a bool, before or behind it.
ChainPrograms ==
    LET setup(g) == <<Instr("Async", g, <<>>),
                      Instr("Async", "Square", <<PromV(1)>>),
                      Instr("Async", "Square", <<PromV(2)>>)>>
        other == {IntV(1), BoolV(TRUE)}
    IN UNION {{Program("Chain", setup(g), Instr("Sync", "Square", <<PromV(k)>>), None)}
              \cup {Program("Chain", setup(g), Instr("Sync", f, <<PromV(k), o>>), None) :
                       f \in {"Square", "Add"}, o \in other}
              \cup {Program("Chain", setup(g), Instr("Sync", "Add", <<o, PromV(k)>>), None) :
                       o \in other} :
              g \in {"Boom", "Text", "TwoOut"}, k \in 1..3}

Scripts ==
    {TestAsync, SumOfSquares, FanOutProgram} \cup SlicePrograms \cup CallPrograms
    \cup ChainPrograms

ScriptUnits == Callers \cup ScriptIds

InitScript ==
    /\ nextId = 1
    /\ value = [p \in ScriptIds |-> ZeroValue]
    /\ ready = [p \in ScriptIds |-> FALSE]
    /\ once = [p \in ScriptIds |-> "idle"]
    /\ origin = [p \in ScriptIds |-> [kind |-> "none", values |-> <<>>]]
    /\ first = [p \in ScriptIds |-> None]
    /\ resolved = [p \in ScriptIds |-> <<>>]
    /\ caller = [c \in Callers |-> IdleCaller]
    /\ exec = [u \in ScriptUnits |-> NoFrame]
    /\ script \in Scripts
    /\ rv = NoResolve

\* Main is at the call that builds promise nextId.
AtSetup(op) ==
    /\ caller[Main].pc = "idle"
    /\ nextId <= Len(script.setup)
    /\ script.setup[nextId].op = op

SetupDone == nextId = Len(script.setup) + 1

ScriptNew == AtSetup("New") /\ New(Main, <<script.setup[nextId].args[1].n>>)

ScriptAsync ==
    AtSetup("Async") /\ AsyncCall(Main, script.setup[nextId].f, script.setup[nextId].args)

ScriptSync ==
    /\ caller[Main].pc = "idle"
    /\ SetupDone
    /\ script.sync = "Sync"
    /\ SyncCall(Main, script.f, script.args)

ScriptGet ==
    /\ SetupDone
    /\ script.get # None
    /\ IF script.sync = "Sync"
       THEN caller[Main].pc = "returned" /\ caller[Main].op = "Sync"
       ELSE caller[Main].pc = "idle"
    /\ GetCall(Main, script.get)

ScriptMainStep ==
    \/ ScriptNew
    \/ ScriptAsync
    \/ ScriptSync
    \/ ScriptGet
    \/ GetReturn(Main)

ScriptExecStep ==
    \/ \E u \in ScriptUnits : ExecValidate(u)
    \/ \E u \in ScriptUnits : ExecResolveArg(u)
    \/ \E u \in ScriptUnits : ExecCall(u)
    \/ \E p \in ScriptIds : TaskResolveWrite(p)
    \/ \E p \in ScriptIds : TaskResolveClose(p)

NextScript == ScriptMainStep \/ ScriptExecStep

\* SpecScript: Main runs one of the fixed programs; the units Async starts
\* interleave freely with it and with each other.
SpecScript == InitScript /\ [][NextScript]_vars

\* A unit that can take a step does take one: the scheduler runs every
\* runnable goroutine.
SpecScriptFair ==
    /\ SpecScript
    /\ WF_vars(ScriptMainStep)
    /\ \A u \in ScriptUnits : WF_vars(ExecValidate(u) \/ ExecResolveArg(u) \/ ExecCall(u))
    /\ \A p \in ScriptIds : WF_vars(TaskResolveWrite(p) \/ TaskResolveClose(p))

\* ======================================================== the resolver
\* Types, as reflect.Type describes them.  k is the reflect.Kind, with
\* "promise" for a *Promise[T]; e holds the element, pointee or payload type,
\* key the key type of a map, len the length of an array.
Type(k, e, key, len) == [k |-> k, e |-> e, key |-> key, len |-> len]
NoType == Type("none", <<>>, <<>>, 0)
TBasic(k) == Type(k, <<>>, <<>>, 0)
TInt == TBasic("int")
TFloat == TBasic("float64")
TBool == TBasic("bool")
TIface == TBasic("interface")
TPromise(t) == Type("promise", <<t>>, <<>>, 0)
TPtr(t) == Type("ptr", <<t>>, <<>>, 0)
TSlice(t) == Type("slice", <<t>>, <<>>, 0)
TArray(l, t) == Type("array", <<t>>, <<>>, l)
TMap(kt, t) == Type("map", <<t>>, <<kt>>, 0)

\* expectedType.Elem(), expectedType.Key()
Elem(t) == t.e[1]
Key(t) == t.key[1]

\* Values, as an interface{} holds them: k the kind, t the dynamic type, id
\* the identity of a promise or the address of a pointer; num the number of
\* an int, the halves of a float64, 1 or 0 for a bool; elems the payload of a
\* promise (every promise here is ready), the pointee of a pointer (empty: a
\* nil pointer), the elements of a slice or array; entries the entries
\* <<key, value>> of a map.
Val(k, t, id, num, elems, entries) ==
    [k |-> k, t |-> t, id |-> id, num |-> num, elems |-> elems, entries |-> entries]
NumVal(k, t, num) == Val(k, t, 0, num, <<>>, {})
SeqVal(k, t, id, elems) == Val(k, t, id, 0, elems, {})
MapVal(t, entries) == Val("map", t, 0, 0, <<>>, entries)
VNil == SeqVal("nil", NoType, 0, <<>>)
VInt(n) == NumVal("int", TInt, n)
VFloat(h) == NumVal("float64", TFloat, h)
VBool(b) == NumVal("bool", TBool, IF b THEN 1 ELSE 0)
VPromise(e, id, v) == SeqVal("promise", TPromise(e), id, <<v>>)
VPtr(e, addr, pointee) == SeqVal("ptr", TPtr(e), addr, pointee)
VSlice(e, elems) == SeqVal("slice", TSlice(e), 0, elems)
VArray(e, elems) == SeqVal("array", TArray(Len(elems), e), 0, elems)
VMap(kt, e, entries) == MapVal(TMap(kt, e), entries)

\* reflect.New: the address of a pointer the resolver allocates; the pointers
\* of the input that are not nil have the address 1.
NewAddr == 0

\* reflect.Zero(t).Interface(): nil for an interface type, a nil pointer, a nil
\* slice or map, an array of zero values, a zero number or false.
RECURSIVE Zero(_)
Zero(t) ==
    CASE t.k = "interface" -> VNil
      [] t.k = "ptr" -> SeqVal("ptr", t, 0, <<>>)
      [] t.k = "promise" -> SeqVal("promise", t, 0, <<>>)
      [] t.k = "slice" -> SeqVal("slice", t, 0, <<>>)
      [] t.k = "map" -> MapVal(t, {})
      [] t.k = "array" -> SeqVal("array", t, 0, [i \in 1..t.len |-> Zero(Elem(t))])
      [] OTHER -> NumVal(t.k, t, 0)

\* What resolveValue returns or does: a value and a nil error, a nil value and
\* an error, or a panic inside it.
NoErr == [msg |-> "none", exp |-> NoType, got |-> NoType, elen |-> 0, glen |-> 0, path |-> <<>>]
Ok(v) == [s |-> "ok", v |-> v, e |-> NoErr]
\* An error that says nothing of lengths.
ErrNoLengths(msg, exp, got, elen, glen) ==
    [s |-> "error", v |-> VNil,
     e |-> [msg |-> msg, exp |-> exp, got |-> got, elen |-> 0, glen |-> 0, path |-> <<>>]]
Err(msg, exp, got, elen, glen) ==
    [s |-> "error", v |-> VNil,
     e |-> [msg |-> msg, exp |-> exp, got |-> got, elen |-> elen, glen |-> glen, path |-> <<>>]]
Panic(msg) == [s |-> "panic", v |-> VNil, e |-> [NoErr EXCEPT !.msg = msg]]

\* fmt.Errorf("error resolving ... %v", ..., err): the error with the place
\* it happened at put in front: the index of a slice or array element, the
\* key of a map entry whose key (c = "key") or value (c = "value") failed.
Ctx(c, i, key) == [c |-> c, i |-> i, key |-> key]
Wrap(ctx, o) == [o EXCEPT !.e.path = <<ctx>> \o @]

\* Type.AssignableTo: the types are identical, or the target is interface{}.
AssignableTo(t, target) == t = target \/ target.k = "interface"

\* Type.ConvertibleTo among the basic types: numbers convert to numbers.
Numeric == {"int", "float64"}
ConvertibleTo(t, target) == t.k \in Numeric /\ target.k \in Numeric

\* A conversion that leaves the value as it is.
Unconverted(v, target) == v

\* Value.Convert: an int to a float64 of the same number, a float64 to an int
\* by truncation (floats are counted in halves).
Convert(v, target) ==
    IF v.k = target.k THEN NumVal(target.k, target, v.num)
    ELSE IF target.k = "float64" THEN NumVal("float64", target, 2 * v.num)
    ELSE NumVal("int", target, v.num \div 2)

\* reflect.ValueOf(resolved) stored by Set, or by SetMapIndex as a key: a nil
\* interface gives the zero Value, on which both panic.
Settable(v, t) == v # VNil /\ AssignableTo(v.t, t)

\* newMap.SetMapIndex(key, value): a zero Value as value deletes the key; a
\* key already there is overwritten.
SetMapIndex(m, key, v) ==
    {en \in m : en[1] # key} \cup (IF v = VNil THEN {} ELSE {<<key, v>>})

\* The orders in which range visits the entries of a map: all of them.
Orders(entries) ==
    {sq \in [1..Cardinality(entries) -> entries] :
        \A i, j \in 1..Cardinality(entries) : i # j => sq[i] # sq[j]}

RECURSIVE resolveValue(_, _), ResolveElems(_, _, _, _), ResolveEntries(_, _, _)

\* A loop that stores the elements as they are.
KeepsElems(elems, et, i, done) == {Ok(SeqVal("elems", NoType, 0, elems))}

\* The loop over the elements of a slice or array from index i (counted from
\* 0) on, done holding the new elements so far: the first element that fails
\* ends it with its index.
ResolveElems(elems, et, i, done) ==
    IF i = Len(elems) THEN {Ok(SeqVal("elems", NoType, 0, done))}
    ELSE UNION {
           IF o.s = "error" THEN {Wrap(Ctx("index", i, VNil), o)}
           ELSE IF o.s = "panic" THEN {o}
           ELSE IF ~Settable(o.v, et) THEN {Panic("reflect: call of reflect.Value.Set on zero Value")}
           ELSE ResolveElems(elems, et, i + 1, Append(done, o.v))
           : o \in resolveValue(elems[i + 1], et) }

\* The loop over the entries of a map in the order todo, m holding the new
\* map so far.
ResolveEntries(todo, t, m) ==
    IF todo = <<>> THEN {Ok(MapVal(NoType, m))}
    ELSE UNION {
           IF ko.s = "error" THEN {Wrap(Ctx("key", 0, Head(todo)[1]), ko)}
           ELSE IF ko.s = "panic" THEN {ko}
           ELSE UNION {
                  IF vo.s = "error" THEN {Wrap(Ctx("value", 0, ko.v), vo)}
                  ELSE IF vo.s = "panic" THEN {vo}
                  ELSE IF ko.v = VNil
                  THEN {Panic("reflect: call of reflect.Value.SetMapIndex on zero Value")}
                  ELSE ResolveEntries(Tail(todo), t, SetMapIndex(m, ko.v, vo.v))
                  : vo \in resolveValue(Head(todo)[2], Elem(t)) }
           : ko \in resolveValue(Head(todo)[1], Key(t)) }

\* A resolver that takes the payload of a promise and looks no further.
UnwrapsOnce(input, t) ==
    IF input = VNil THEN {Ok(Zero(t))}
    ELSE IF input.k = "promise" /\ input.elems # <<>> THEN {Ok(input.elems[1])}
    ELSE {Ok(input)}

\* resolveValue(input, expectedType): the set of its possible outcomes (more
\* than one only where the order of a map's entries decides).
resolveValue(input, t) ==
    IF input = VNil THEN {Ok(Zero(t))}
    ELSE IF input.k = "promise"
    THEN IF input.elems = <<>> THEN {Panic("invalid memory address or nil pointer dereference")}
         ELSE resolveValue(input.elems[1], t)
    ELSE IF t.k = "ptr"
    THEN IF input.k # "ptr" THEN {Err("expected a pointer", t, input.t, 0, 0)}
         ELSE IF input.elems = <<>> THEN {Ok(Zero(t))}
         ELSE {IF o.s # "ok" THEN o
               ELSE IF ~Settable(o.v, Elem(t))
               THEN Panic("reflect: call of reflect.Value.Set on zero Value")
               ELSE Ok(SeqVal("ptr", t, NewAddr, <<o.v>>))
               : o \in resolveValue(input.elems[1], Elem(t))}
    ELSE CASE t.k = "slice" ->
                IF input.k # "slice" THEN {Err("expected a slice", NoType, input.t, 0, 0)}
                ELSE {IF o.s = "ok" THEN Ok(SeqVal("slice", t, 0, o.v.elems)) ELSE o
                      : o \in ResolveElems(input.elems, Elem(t), 0, <<>>)}
           [] t.k = "array" ->
                IF input.k # "array" THEN {Err("expected an array", NoType, input.t, 0, 0)}
                ELSE IF Len(input.elems) # t.len
                THEN {Err("expected array of length", NoType, NoType, t.len, Len(input.elems))}
                ELSE {IF o.s = "ok" THEN Ok(SeqVal("array", t, 0, o.v.elems)) ELSE o
                      : o \in ResolveElems(input.elems, Elem(t), 0, <<>>)}
           [] t.k = "map" ->
                IF input.k # "map" THEN {Err("expected a map", NoType, input.t, 0, 0)}
                ELSE UNION {{IF o.s = "ok" THEN Ok(MapVal(t, o.v.entries)) ELSE o
                             : o \in ResolveEntries(todo, t, {})}
                            : todo \in Orders(input.entries)}
           [] t.k = "interface" -> {Ok(input)}
           [] OTHER ->
                IF AssignableTo(input.t, t) THEN {Ok(input)}
                ELSE IF ConvertibleTo(input.t, t) THEN {Ok(Convert(input, t))}
                ELSE {Err("cannot assign or convert", t, input.t, 0, 0)}

\* A shallow resolution that hands every input on as it is.
PassesAll(input, t) == Ok(input)

\* shallowResolve(input, expectedType)
shallowResolve(input, t) ==
    IF input = VNil THEN Ok(Zero(t))
    ELSE IF input.k = "promise"
    THEN IF input.elems = <<>> THEN Panic("invalid memory address or nil pointer dereference")
         ELSE Ok(input.elems[1])
    ELSE Ok(input)

\* panic("pas.executeFunction: argument %d has type %s, expected %s")
WrongType(res, t) ==
    [Panic("argument has wrong type") EXCEPT !.e.exp = t, !.e.got = res.t]

\* executeFunction, after the argument is resolved: a nil result becomes the
\* zero Value of the parameter type; any other must be assignable to the
\* parameter type or convertible to it.  Whether a slice converts to an array
\* of the same element type depends on the toolchain: where it does, Convert
\* panics on a slice that is too short.
AssignArg(res, t) ==
    IF res = VNil THEN {Ok(Zero(t))}
    ELSE IF AssignableTo(res.t, t) THEN {Ok(res)}
    ELSE IF ConvertibleTo(res.t, t) THEN {Ok(Convert(res, t))}
    ELSE IF res.k = "slice" /\ t.k = "array" /\ Elem(res.t) = Elem(t)
    THEN {WrongType(res, t),
          IF Len(res.elems) >= t.len
          THEN Ok(SeqVal("array", t, 0, SubSeq(res.elems, 1, t.len)))
          ELSE Panic("reflect: cannot convert slice to array")}
    ELSE {WrongType(res, t)}

\* ------------------------------------------------- arguments and shapes
\* The types of the arguments and of the parameters, after the tests: basic
\* types and interface{}, promises of them, chains of promises, and pointers,
\* slices, arrays and maps over elements that are plain, promises or
\* interface{}, with some nestings of containers.
LeafTypes == {TInt, TFloat, TBool, TIface}

Containers(E, K) ==
    {TPtr(e) : e \in E} \cup {TSlice(e) : e \in E}
    \cup {TArray(l, e) : l \in 1..MaxElems, e \in E}
    \cup {TMap(kt, e) : kt \in K, e \in E}

InputTypes ==
    LET ElemTypes == {TInt, TPromise(TInt), TIface}
        KeyTypes == {TInt, TPromise(TInt)}
        NestedTypes ==
            {TSlice(TSlice(TPromise(TInt))), TPtr(TSlice(TPromise(TInt))), TSlice(TPtr(TInt)),
             TSlice(TPromise(TPtr(TInt))), TPromise(TPromise(TPromise(TInt)))}
    IN  LeafTypes \cup Containers(ElemTypes, KeyTypes) \cup NestedTypes
        \cup {TPromise(t) :
                 t \in LeafTypes \cup {TPromise(TInt)} \cup Containers(ElemTypes, KeyTypes)}

\* The parameter types the arguments are resolved against.
Shapes ==
    LeafTypes \cup Containers({TInt, TFloat, TIface}, {TInt})
    \cup {TSlice(TSlice(TInt)), TPtr(TSlice(TInt)), TSlice(TPtr(TInt))}

\* The values whose type is t, in containers of at most n elements whose own
\* elements are in containers of at most n - 1.  Promises are told apart (ids)
\* where it matters, as keys of a map, and there by the promises of the int 1.
\* An interface{} holds nil, the int 1, true or a promise of the int 1.
RECURSIVE ValuesOf(_, _, _)
ValuesOf(t, ids, n) ==
    LET Dynamic == {VNil, VInt(1), VBool(TRUE), VPromise(TInt, 1, VInt(1))}
        payloads == ValuesOf(Elem(t), 1..1, n)
        elems == ValuesOf(Elem(t), 1..1, n - 1)
        keys == ValuesOf(Key(t), 1..MaxIds, n - 1)
        keysets == {x \in SUBSET keys : Cardinality(x) <= n}
        SeqsOf(L) == UNION {[1..l -> elems] : l \in L}
        MapsOf == UNION {{{<<k, f[k]>> : k \in ks} : f \in [ks -> elems]} : ks \in keysets}
    IN
    CASE t.k = "int" -> {VInt(i) : i \in 1..MaxInt}
      [] t.k = "float64" -> {VFloat(2 * i + 1) : i \in 1..MaxInt}
      [] t.k = "bool" -> {VBool(TRUE)}
      [] t.k = "interface" -> Dynamic
      [] t.k = "promise" ->
            {VPromise(Elem(t), 1, v) : v \in payloads}
            \cup {VPromise(Elem(t), id, VInt(1)) : id \in {x \in ids : Elem(t) = TInt}}
      [] t.k = "ptr" ->
            {SeqVal("ptr", t, 0, <<>>)} \cup {SeqVal("ptr", t, 1, <<v>>) : v \in payloads}
      [] t.k = "slice" -> {SeqVal("slice", t, 0, sq) : sq \in SeqsOf(0..n)}
      [] t.k = "array" -> {SeqVal("array", t, 0, sq) : sq \in SeqsOf({t.len})}
      [] t.k = "map" -> {MapVal(t, m) : m \in MapsOf}

\* The arguments: the values of the given types, and a nil *Promise[int].
Inputs(types) == UNION {ValuesOf(t, 1..1, MaxElems) : t \in types} \cup {Zero(TPromise(TInt))}

\* ------------------------------------------------------ one resolver call
\* executeFunction's work on one argument: the resolution in the chosen mode,
\* then the fitting of the result to the parameter type.
NoOutcome == [s |-> "none", v |-> VNil, e |-> NoErr]

InitResolve ==
    /\ nextId = 1
    /\ value = [p \in PromiseIds |-> ZeroValue]
    /\ ready = [p \in PromiseIds |-> FALSE]
    /\ once = [p \in PromiseIds |-> "idle"]
    /\ origin = [p \in PromiseIds |-> [kind |-> "none", values |-> <<>>]]
    /\ first = [p \in PromiseIds |-> None]
    /\ resolved = [p \in PromiseIds |-> <<>>]
    /\ caller = [c \in Callers |-> IdleCaller]
    /\ exec = [u \in Units |-> NoFrame]
    /\ script = NoScript
    /\ rv \in [pc : {"resolve"}, mode : {"recursive", "shallow"},
                input : Inputs(InputTypes), shape : Shapes,
                out : {NoOutcome}, arg : {NoOutcome}]

\* The outcome o ends the resolution: an error or a panic ends the call.
Resolves(o) ==
    /\ rv' = [rv EXCEPT !.out = o, !.pc = IF o.s = "ok" THEN "resolved" ELSE "failed"]
    /\ UNCHANGED <<nextId, value, ready, once, origin, first, resolved, caller, exec, script>>

\* resolved, err = resolveValue(arg, expectedType)
ResolveRecursive ==
    /\ rv.pc = "resolve"
    /\ rv.mode = "recursive"
    /\ \E o \in resolveValue(rv.input, rv.shape) : Resolves(o)

\* resolved, err = shallowResolve(arg, expectedType)
ResolveShallow ==
    /\ rv.pc = "resolve"
    /\ rv.mode = "shallow"
    /\ Resolves(shallowResolve(rv.input, rv.shape))

\* resolvedArgs[i] = ...
AssignResolved ==
    /\ rv.pc = "resolved"
    /\ \E a \in AssignArg(rv.out.v, rv.shape) :
           rv' = [rv EXCEPT !.arg = a, !.pc = IF a.s = "ok" THEN "assigned" ELSE "failed"]
    /\ UNCHANGED <<nextId, value, ready, once, origin, first, resolved, caller, exec, script>>

NextResolve == ResolveRecursive \/ ResolveShallow \/ AssignResolved

\* SpecResolve: executeFunction's work on one argument, for every argument
\* and parameter type of the bounded sets, in both modes.
SpecResolve == InitResolve /\ [][NextResolve]_vars

\* ---------------------------------------------------------------------------
\* The resolver, object by object
\*
\* What resolveValue reads, allocates and writes.  The heap is a sequence of
\* objects, the address of an object its index: a promise (elems holds its
\* payload; every promise here is ready), the cell of a pointer (elems holds
\* the pointee), the backing array of a slice, a map (keys and elems, entry by
\* entry) and a struct (elems holds its fields).  A value is nil, an int or
\* the reference to an object; the reference 0 is the zero value of a pointer,
\* slice, map or struct type.  Nil pointers and the conversions of numbers
\* are those of the resolver over values above.
MaxObjects == 2

Nil == [k |-> "nil", n |-> 0]
Ref(a) == [k |-> "ref", n |-> a]
Object(k, keys, elems) == [k |-> k, keys |-> keys, elems |-> elems]

\* An allocator that hands out the last object in use again.
Recycle(h, k, elems) == h

\* reflect.New, reflect.MakeSlice, reflect.MakeMapWithSize: the heap with a new
\* object of kind k, its elements elems, behind every object in use.
Allocate(h, k, elems) == Append(h, Object(k, <<>>, elems))

\* A resolver that descends into a struct: a promise in the field is replaced
\* by what it holds, in a new struct.
DescendsStructs(h, input, t) ==
    IF /\ input.k = "ref"
       /\ h[input.n].k = "struct"
       /\ h[input.n].elems[1].k = "ref"
       /\ h[h[input.n].elems[1].n].k = "promise"
    THEN [h |-> Allocate(h, "struct", h[h[input.n].elems[1].n].elems),
          v |-> Ref(Len(h) + 1), err |-> "none"]
    ELSE [h |-> h, v |-> input, err |-> "none"]

\* resolveValue(input, expectedType) on the heap h: the heap it leaves, the
\* value it returns and the error or panic it ends with.  The entries of a
\* map are taken in the order of keys; another order allocates the same
\* objects at other addresses.
RECURSIVE resolveHeap(_, _, _)
resolveHeap(h, input, t) ==
    LET kind == IF input.k = "ref" THEN h[input.n].k ELSE input.k
        \* reflect.Zero(ty)
        ZeroOf(ty) == CASE ty.k = "interface" -> Nil [] ty.k = "int" -> IntV(0)
                     [] OTHER -> Ref(0)
        Done(hh, v) == [h |-> hh, v |-> v, err |-> "none"]
        Failed(hh, msg) == [h |-> hh, v |-> Nil, err |-> msg]
        Drop(s, j) == [i \in 1..(Len(s) - 1) |-> IF i < j THEN s[i] ELSE s[i + 1]]
        \* newMap.SetMapIndex(key, v): a nil v deletes the key.
        SetEntry(o, key, v) ==
            LET at == {j \in 1..Len(o.keys) : o.keys[j] = key}
                j == CHOOSE x \in at : TRUE
            IN IF v = Nil
               THEN IF at = {} THEN o
                    ELSE Object(o.k, Drop(o.keys, j), Drop(o.elems, j))
               ELSE IF at = {} THEN Object(o.k, Append(o.keys, key), Append(o.elems, v))
                    ELSE Object(o.k, o.keys, [o.elems EXCEPT ![j] = v])
        \* The loop over the elements of the input slice from index i on,
        \* the new slice at address a.
        RECURSIVE Elements(_, _, _)
        Elements(hh, a, i) ==
            IF i > Len(h[input.n].elems) THEN Done(hh, Ref(a))
            ELSE LET r == resolveHeap(hh, hh[input.n].elems[i], Elem(t))
                 IN IF r.err # "none" THEN r
                    ELSE IF r.v = Nil
                    THEN Failed(r.h, "reflect: call of reflect.Value.Set on zero Value")
                    ELSE Elements([r.h EXCEPT ![a].elems[i] = r.v], a, i + 1)
        \* The loop over inputVal.MapKeys() from key i on, the new map at
        \* address a.
        RECURSIVE Entries(_, _, _)
        Entries(hh, a, i) ==
            IF i > Len(h[input.n].keys) THEN Done(hh, Ref(a))
            ELSE LET rk == resolveHeap(hh, h[input.n].keys[i], Key(t))
                 IN IF rk.err # "none" THEN rk
                    ELSE LET re == resolveHeap(rk.h, rk.h[input.n].elems[i], Elem(t))
                         IN IF re.err # "none" THEN re
                            ELSE IF rk.v = Nil
                            THEN Failed(re.h, "reflect: call of reflect.Value.SetMapIndex on zero Value")
                            ELSE Entries([re.h EXCEPT ![a] = SetEntry(re.h[a], rk.v, re.v)],
                                         a, i + 1)
    IN IF input = Nil THEN Done(h, ZeroOf(t))
       ELSE IF kind = "promise" THEN resolveHeap(h, h[input.n].elems[1], t)
       ELSE IF t.k = "ptr"
       THEN IF kind # "ptr" THEN Failed(h, "expected a pointer")
            ELSE LET r == resolveHeap(h, h[input.n].elems[1], Elem(t))
                 IN IF r.err # "none" THEN r
                    ELSE IF r.v = Nil
                    THEN Failed(r.h, "reflect: call of reflect.Value.Set on zero Value")
                    ELSE LET h1 == Allocate(r.h, "ptr", <<ZeroOf(Elem(t))>>)
                         IN Done([h1 EXCEPT ![Len(h1)].elems[1] = r.v], Ref(Len(h1)))
       ELSE IF t.k = "slice"
       THEN IF kind # "slice" THEN Failed(h, "expected a slice")
            ELSE LET h1 == Allocate(h, "slice",
                                      [i \in 1..Len(h[input.n].elems) |-> ZeroOf(Elem(t))])
                 IN Elements(h1, Len(h1), 1)
       ELSE IF t.k = "map"
       THEN IF kind # "map" THEN Failed(h, "expected a map")
            ELSE LET h1 == Allocate(h, "map", <<>>)
                 IN Entries(h1, Len(h1), 1)
       ELSE IF t.k = "interface" THEN Done(h, input)
       ELSE IF kind = t.k THEN Done(h, input)
       ELSE Failed(h, "cannot assign or convert")

\* The heaps of at most MaxObjects objects, each object holding nil, an int
\* or references to the objects built before it: promises, pointers and
\* structs of one field, slices of at most two elements, maps of at most two
\* entries whose keys are ints and promises.  The argument is the object
\* built last, or nil or an int; the parameter types are those of the tests.
InitHeap ==
    /\ nextId = 1
    /\ value = [p \in PromiseIds |-> ZeroValue]
    /\ ready = [p \in PromiseIds |-> FALSE]
    /\ once = [p \in PromiseIds |-> "idle"]
    /\ origin = [p \in PromiseIds |-> [kind |-> "none", values |-> <<>>]]
    /\ first = [p \in PromiseIds |-> None]
    /\ resolved = [p \in PromiseIds |-> <<>>]
    /\ caller = [c \in Callers |-> IdleCaller]
    /\ exec = [u \in Units |-> NoFrame]
    /\ script = NoScript
    /\ LET ValuesAt(a) == {Nil, IntV(1)} \cup {Ref(b) : b \in 1..(a - 1)}
           SeqsOf(S, n) == UNION {[1..m -> S] : m \in 0..n}
           KeysAt(h) == {IntV(1)} \cup {Ref(b) : b \in {c \in 1..Len(h) : h[c].k = "promise"}}
           ObjectsAt(h) ==
               LET V == ValuesAt(Len(h) + 1)
               IN {Object(k, <<>>, <<v>>) : k \in {"promise", "ptr", "struct"}, v \in V}
                  \cup {Object("slice", <<>>, e) : e \in SeqsOf(V, 2)}
                  \cup {Object("map", <<>>, <<>>)}
                  \cup {Object("map", <<key>>, <<v>>) : key \in KeysAt(h), v \in V}
                  \cup {Object("map", ks, <<v1, v2>>) :
                          ks \in {x \in KeysAt(h) \X KeysAt(h) : x[1] # x[2]},
                          v1 \in {Nil, IntV(1)}, v2 \in {Nil, IntV(1)}}
           RECURSIVE Heaps(_)
           Heaps(n) == IF n = 0 THEN {<<>>}
                       ELSE LET H == Heaps(n - 1)
                            IN H \cup UNION {{Append(h, o) : o \in ObjectsAt(h)} :
                                              h \in {x \in H : Len(x) = n - 1}}
           HeapShapes ==
               {TInt, TIface, TBasic("struct"), TPtr(TInt), TPtr(TIface), TPtr(TSlice(TInt)),
                TSlice(TInt), TSlice(TIface), TSlice(TBasic("struct")), TSlice(TPtr(TInt)),
                TSlice(TSlice(TInt)), TMap(TInt, TInt), TMap(TIface, TIface),
                TMap(TInt, TSlice(TInt))}
       IN \E h \in Heaps(MaxObjects) :
              rv \in [pc : {"resolve"}, heap : {h},
                      input : IF h = <<>> THEN {Nil, IntV(1)} ELSE {Ref(Len(h))},
                      shape : HeapShapes, out : {Nil}, err : {"none"}]

\* resolveValue(args[i], ft.In(i)) or, without the flag,
\* shallowResolve(args[i], ft.In(i)), which allocates and writes nothing: the
\* call leaves its heap, its value and its error.
ResolveOnHeap ==
    /\ rv.pc = "resolve"
    /\ \E recursive \in BOOLEAN :
           LET r == resolveHeap(rv.heap, rv.input, rv.shape)
               input == rv.input
           IN rv' = IF recursive
                    THEN [rv EXCEPT !.pc = "resolved", !.heap = r.h, !.out = r.v, !.err = r.err]
                    ELSE [rv EXCEPT !.pc = "shallow", !.out =
                            IF input = Nil
                            THEN CASE rv.shape.k = "interface" -> Nil
                                   [] rv.shape.k = "int" -> IntV(0)
                                   [] OTHER -> Ref(0)
                            ELSE IF input.k = "ref" /\ rv.heap[input.n].k = "promise"
                            THEN rv.heap[input.n].elems[1]
                            ELSE input]
    /\ UNCHANGED <<nextId, value, ready, once, origin, first, resolved, caller, exec, script>>

SpecHeap == InitHeap /\ [][ResolveOnHeap]_vars

\* ------------------------------------------------------------- properties
\* Caller c's last operation was a Get on p, and it has returned.
Got(c, p) ==
    /\ caller[c].pc = "returned"
    /\ caller[c].op = "Get"
    /\ caller[c].p = p

\* Two Resolve calls on p have returned, the first with another value than
\* the second.
ResolvedTwice(p) ==
    /\ Len(resolved[p]) >= 2
    /\ resolved[p][1] # resolved[p][2]

\* C1, as the specification states it (SpecLog): for ANY promise, after
\* Resolve(v1) followed by Resolve(v2) with v1 # v2, every Get returns v1.
C1_AnyPromise ==
    \A p \in Allocated :
        ResolvedTwice(p) =>
            \A c \in Callers : Got(c, p) => caller[c].ret = resolved[p][1]

\* C1, amended (SpecLog): for a promise that NewPending built, after
\* Resolve(v1) followed by Resolve(v2) with v1 # v2 the promise is ready, it
\* holds v1 and every Get returns v1: the second Resolve changed nothing.
C1_PendingPromise ==
    \A p \in Allocated :
        (origin[p].kind = "NewPending" /\ ResolvedTwice(p)) =>
            /\ ready[p]
            /\ value[p] = resolved[p][1]
            /\ \A c \in Callers : Got(c, p) => caller[c].ret = resolved[p][1]

\* C1: a promise of NewPending, resolved twice with different values, and a
\* Get on it that returned the first of them.
C1_Witness ==
    \E p \in Allocated, c \in Callers :
        /\ origin[p].kind = "NewPending"
        /\ ResolvedTwice(p)
        /\ Got(c, p)
        /\ caller[c].ret = resolved[p][1]

\* The step reads the value of a promise: a Get returns, or a unit resolves an
\* argument that is a promise.
GetReads(c) == caller[c].pc = "Get" /\ caller'[c].pc = "returned"

ArgReads(u) ==
    /\ exec[u].pc = "resolve"
    /\ Len(exec'[u].res) > Len(exec[u].res)
    /\ IsPromise(exec[u].args[Len(exec[u].res) + 1])

ArgRead(u) == exec[u].args[Len(exec[u].res) + 1].n

\* C2 (SpecOpen): no step reads the value of a promise whose ready channel
\* is still open, neither a Get nor the resolution of an argument; and no step
\* of any operation changes the value of a promise whose channel is closed.
C2_ValueStable ==
    [][ /\ \A c \in Callers : GetReads(c) => ready[caller[c].p]
        /\ \A u \in Units : ArgReads(u) => ready[ArgRead(u)]
        /\ \A p \in PromiseIds : ready[p] => value'[p] = value[p] ]_vars

\* C2: a unit has read the value 1 of a promise that Resolve made ready, and a
\* later Resolve with the value 0 is under way on that promise.
C2_Witness ==
    \E p \in Allocated, q \in Allocated :
        /\ origin[p].kind = "NewPending"
        /\ ready[p]
        /\ value[p] = 1
        /\ exec[q].pc = "resolve"
        /\ exec[q].args = <<PromV(p)>>
        /\ exec[q].res = <<IntV(1)>>
        /\ caller[Main].pc = "ResolveCall"
        /\ caller[Main].p = p
        /\ caller[Main].v = 0

\* C3 (SpecOpen): a promise that is ready is ready after every step, so the
\* only change of state is pending -> ready and it happens at most once; and
\* a promise is ready in the state in which New has built it.
C3_PendingToReady ==
    [][ /\ \A p \in PromiseIds : ready[p] => ready'[p]
        /\ \A p \in PromiseIds :
               (origin[p].kind = "none" /\ origin'[p].kind = "New") => ready'[p] ]_vars

\* C3: a promise of New and a promise of NewPending that Resolve has made
\* ready, with one more Resolve on the latter under way.
C3_Witness ==
    \E p \in Allocated, q \in Allocated :
        /\ origin[p].kind = "New"
        /\ ready[p]
        /\ origin[q].kind = "NewPending"
        /\ ready[q]
        /\ caller[Main].pc = "ResolveCall"
        /\ caller[Main].p = q

\* C4 (Spec): under every interleaving of the Resolve calls on a promise of
\* NewPending, the value stored is the value of the call that entered the
\* once-guard first, from the moment it is stored on; a ready promise has had
\* such a call; and every Get that has returned, returned that value.
C4_FirstWriterWins ==
    \A p \in Allocated :
        origin[p].kind = "NewPending" =>
            /\ ready[p] => first[p] # None
            /\ first[p] # None => value[p] = first[p]
            /\ \A c \in Callers : Got(c, p) => caller[c].ret = first[p]

\* C4: two callers inside Resolve on the same promise of NewPending with
\* different values, one past the guard and one waiting at it, while a third
\* caller's Get on the promise is blocked.
C4_Witness ==
    \E p \in Allocated, c1 \in Callers, c2 \in Callers, c3 \in Callers :
        /\ origin[p].kind = "NewPending"
        /\ caller[c1].pc = "ResolveClose" /\ caller[c1].p = p
        /\ caller[c2].pc = "ResolveCall" /\ caller[c2].p = p
        /\ caller[c1].v # caller[c2].v
        /\ caller[c3].pc = "Get" /\ caller[c3].p = p

\* C5 (SpecFair): all the Gets on one promise that have returned, returned
\* the same value, the one the promise holds; and a reader blocked in Get on
\* a promise whose resolution has completed does return.
C5_ReadersAgree ==
    /\ [][ \A p \in PromiseIds, c \in Callers, d \in Callers :
               (Got(c, p)' /\ Got(d, p)') =>
                   /\ caller'[c].ret = caller'[d].ret
                   /\ caller'[c].ret = value'[p] ]_vars
    /\ \A p \in PromiseIds, c \in Callers :
           (caller[c].pc = "Get" /\ caller[c].p = p /\ once[p] = "done") ~> Got(c, p)

\* C5: two callers whose Gets on a promise of NewPending have both returned.
C5_Witness ==
    \E p \in Allocated, c \in Callers, d \in Callers :
        /\ c # d
        /\ origin[p].kind = "NewPending"
        /\ Got(c, p)
        /\ Got(d, p)

\* The value New is expected to hand to Get: the one value given, or 0.
Given(values) == IF values = <<>> THEN 0 ELSE values[1]

\* C6 (Spec): a promise New(v) or New() has built is ready, so that a Get on
\* it is never blocked, and holds v, respectively 0; every Get on it that
\* has returned, returned that value.
C6_NewIsReady ==
    \A p \in Allocated :
        origin[p].kind = "New" =>
            /\ ready[p]
            /\ value[p] = Given(origin[p].values)
            /\ \A c \in Callers : Got(c, p) => caller[c].ret = Given(origin[p].values)

\* C6: a Get on a promise of New(1) has returned 1, and a Get on a promise of
\* New() has returned 0.
C6_Witness ==
    \E p \in Allocated, q \in Allocated, c \in Callers, d \in Callers :
        /\ origin[p] = [kind |-> "New", values |-> <<1>>]
        /\ Got(c, p)
        /\ caller[c].ret = 1
        /\ origin[q] = [kind |-> "New", values |-> <<>>]
        /\ Got(d, q)
        /\ caller[d].ret = 0

\* C7 (Spec): as long as no Resolve has run on a promise NewPending built,
\* the promise is pending and no Get on it has returned.
C7_PendingStaysPending ==
    \A p \in Allocated :
        (origin[p].kind = "NewPending" /\ once[p] = "idle") =>
            /\ ~ready[p]
            /\ \A c \in Callers : ~Got(c, p)

\* C7: two callers are blocked in Get on a promise of NewPending on which no
\* Resolve has run, while a Get on another promise has returned.
C7_Witness ==
    \E p \in Allocated, q \in Allocated, c \in Callers, d \in Callers, e \in Callers :
        /\ origin[p].kind = "NewPending"
        /\ once[p] = "idle"
        /\ c # d
        /\ caller[c].pc = "Get" /\ caller[c].p = p
        /\ caller[d].pc = "Get" /\ caller[d].p = p
        /\ Got(e, q)

\* The step ends a call of New in the invalid-arity panic.
NewPanics(c) ==
    /\ caller'[c] # caller[c]
    /\ caller'[c].pc = "panicked"
    /\ caller'[c].op = "New"
    /\ caller'[c].err = "New: expected at most one value"

\* C8 (Spec): no promise is ever built from more than one value, and the
\* step in which New panics with the invalid-arity error allocates nothing
\* and changes no promise.
C8_NewArity ==
    [][ /\ \A p \in PromiseIds :
               origin'[p].kind = "New" => Len(origin'[p].values) <= 1
        /\ \A c \in Callers :
               NewPanics(c) => UNCHANGED <<nextId, value, ready, once, origin>> ]_vars

\* C8: a call of New has ended in the invalid-arity panic and no promise is
\* allocated.
C8_Witness ==
    \E c \in Callers :
        /\ caller[c].pc = "panicked"
        /\ caller[c].op = "New"
        /\ caller[c].err = "New: expected at most one value"
        /\ nextId = 1

\* The step is the one in which Async builds promise q.
AsyncBuilds(q) == origin[q].kind = "none" /\ origin'[q].kind = "Async"

\* C9 (SpecSealed): in the very step in which Async builds its promise the
\* call has returned to its caller, the promise is pending, and the spawned
\* unit has resolved no argument and has not called the worker, whatever the
\* state of the argument promises.
C9_AsyncReturnsAtOnce ==
    [][ \A q \in PromiseIds :
            AsyncBuilds(q) =>
                /\ caller'[Main].pc = "idle"
                /\ ~ready'[q]
                /\ exec'[q].pc = "resolve"
                /\ exec'[q].res = <<>> ]_vars

\* C9: Async has returned the pending promise q although its argument p is a
\* promise that never becomes ready (the worker of p panicked); the unit of q
\* is still waiting for p.
C9_Witness ==
    \E p \in Allocated, q \in Allocated :
        /\ exec[p].pc = "recovered"
        /\ ~ready[p]
        /\ origin[q].kind = "Async"
        /\ exec[q].pc = "resolve"
        /\ exec[q].args = <<PromV(p)>>
        /\ exec[q].res = <<>>
        /\ ~ready[q]
        /\ caller[Main].pc = "idle"

\* The step is the one in which unit u calls the worker function.
Invokes(u) ==
    /\ exec[u].pc = "resolve"
    /\ \/ exec'[u].pc = "called"
       \/ exec'[u].err = "worker panicked"
       \/ u \in Callers /\ caller[u].pc = "Sync" /\ caller'[u].pc = "returned"
       \/ u \in Callers /\ caller[u].pc = "Sync" /\ caller'[u].err = "worker panicked"

\* Every argument of u's frame that is a promise is ready.
ArgsReady(u) ==
    \A i \in 1..Len(exec[u].args) :
        IsPromise(exec[u].args[i]) => ready[exec[u].args[i].n]

\* Every argument of u's frame resolved so far, if it is a promise, is a
\* ready promise and was replaced by the value that promise holds; when Async
\* built that promise, its unit has called its worker and resolved it.
ArgsObserved(u) ==
    \A i \in 1..Len(exec[u].res) :
        IsPromise(exec[u].args[i]) =>
            /\ ready[exec[u].args[i].n]
            /\ exec[u].res[i] = IntV(value[exec[u].args[i].n])
            /\ origin[exec[u].args[i].n].kind = "Async" =>
                   exec[exec[u].args[i].n].pc = "done"

\* C10 (SpecSealed): a unit of Async or Sync calls the worker only in a state
\* in which every promise among the arguments is ready; a promise of Async is
\* ready only when its unit has called the worker and resolved the promise with
\* the result; and what a unit has taken from an argument promise is the
\* value of that promise, ready and resolved by its producer.
C10_DependencyOrder ==
    [][ /\ \A u \in Units : Invokes(u) => ArgsReady(u)
        /\ \A p \in PromiseIds :
               (origin'[p].kind = "Async" /\ ready'[p]) => exec'[p].pc = "done"
        /\ \A u \in Units : ArgsObserved(u)' ]_vars

\* C10: the unit of the Async promise q has resolved its argument, the Async
\* promise p whose unit is done, to the value of p and is about to call the
\* worker.
C10_Witness ==
    \E p \in Allocated, q \in Allocated :
        /\ origin[p].kind = "Async"
        /\ exec[p].pc = "done"
        /\ ready[p]
        /\ origin[q].kind = "Async"
        /\ exec[q].pc = "resolve"
        /\ exec[q].args = <<PromV(p)>>
        /\ exec[q].res = <<IntV(value[p])>>
        /\ ~ready[q]

\* Main's last operation was a Sync, and it has returned.
SyncReturned == caller[Main].pc = "returned" /\ caller[Main].op = "Sync"

\* The arguments the program's call hands to f, the flag left out.
OwnArgs == SubSeq(script.args, 1, NumIn(script.f))

\* All of them are plain ints or promises.
PlainOrPromise == \A i \in 1..Len(OwnArgs) : OwnArgs[i].k \in {"int", "promise"}

\* f applied to them, each promise replaced by the value it holds.
Applied ==
    Call(script.f,
         [i \in 1..Len(OwnArgs) |->
             IF IsPromise(OwnArgs[i]) THEN IntV(value[OwnArgs[i].n]) ELSE OwnArgs[i]])

\* C11 (SpecScript): in every program whose call takes plain values and
\* promises, a Sync that has returned, returned f applied to the arguments with
\* each promise replaced by its value, and so did the Get on the promise of the
\* Async call with the same arguments; Sync(Add, Async(Square, 3),
\* Async(Square, 4)) returned 25; the Get that ends TestAsync returned 14;
\* and these two programs stop only once that result is there.
C11_AppliedToResolved ==
    /\ (SyncReturned /\ PlainOrPromise) => caller[Main].ret = Applied
    /\ (script.name = "Call" /\ Got(Main, script.get)) => caller[Main].ret = Applied
    /\ (script.name = "SumOfSquares" /\ SyncReturned) => caller[Main].ret = 25
    /\ (script.name = "TestAsync" /\ Got(Main, script.get)) => caller[Main].ret = 14
    /\ (script.name = "SumOfSquares" /\ ~ENABLED NextScript) => SyncReturned
    /\ (script.name = "TestAsync" /\ ~ENABLED NextScript) => Got(Main, script.get)

\* C11: TestAsync has run to its end and its Get has returned 14.
C11_Witness ==
    /\ script.name = "TestAsync"
    /\ Got(Main, script.get)
    /\ caller[Main].ret = 14
    /\ \A p \in ScriptIds : ready[p]

\* The promise every Async call of the FanOut program after the first takes as
\* its argument, and the promises of those calls.
Upstream == FanOutProgram.setup[Len(FanOutProgram.setup)].args[1].n
Dependents == 2..(1 + FanOut)

\* C12 (SpecScriptFair): when FanOut calls of Async share one upstream promise
\* of Async, every unit that has resolved its argument holds the value of the
\* ready upstream promise, so all hold the same one, and every ready dependent
\* holds the worker's result on it; the upstream unit leaves its argument loop
\* for the worker's call once and never enters it again; and the upstream
\* promise and all the dependents become ready.
C12_SharedUpstream ==
    /\ [](script.name = "FanOut" =>
            \A q \in Dependents :
                /\ exec[q].res # <<>> =>
                       ready[Upstream] /\ exec[q].res = <<IntV(value[Upstream])>>
                /\ ready[q] => value[q] = Call("Square", <<IntV(value[Upstream])>>))
    /\ [][script.name = "FanOut" =>
            /\ (exec[Upstream].pc = "resolve" /\ exec'[Upstream].pc # "resolve")
                   => exec'[Upstream].pc = "called"
            /\ (origin[Upstream].kind = "Async" /\ exec[Upstream].pc # "resolve")
                   => exec'[Upstream].pc # "resolve"]_vars
    /\ (script.name = "FanOut") ~>
            (exec[Upstream].pc = "done" /\ \A q \in {Upstream} \cup Dependents : ready[q])

\* C12: all the units that shared the upstream promise are done and their
\* promises hold the same result, computed from the upstream value.
C12_Witness ==
    /\ script.name = "FanOut"
    /\ exec[Upstream].pc = "done"
    /\ \A q \in Dependents :
           /\ exec[q].pc = "done"
           /\ ready[q]
           /\ value[q] = Call("Square", <<IntV(value[Upstream])>>)
           /\ value[q] # ZeroValue

\* The failures executeFunction ends with.
ExecErrors ==
    {"must have exactly one return value", "error resolving argument",
     "argument has wrong type", "worker panicked", "return type does not match"}

\* The step is the one in which the spawned unit of q fails.
UnitFails(q) == exec[q].pc = "resolve" /\ exec'[q].pc = "recovered"

\* C13 (SpecScript): the step in which a spawned unit fails changes no caller
\* and no promise; from then on the unit stays where the recover left it, its
\* promise is pending with its once-guard unused, no Get on it has returned,
\* and a program that only reads the promise has not panicked.
C13_FailureRecovered ==
    /\ [](\A q \in ScriptIds :
            exec[q].pc = "recovered" =>
                /\ exec[q].err \in ExecErrors
                /\ ~ready[q]
                /\ once[q] = "idle"
                /\ value[q] = ZeroValue
                /\ ~Got(Main, q)
                /\ script.name = "Read" => caller[Main].pc # "panicked")
    /\ [][\A q \in ScriptIds :
            /\ UnitFails(q) => UNCHANGED <<caller, value, ready, once>>
            /\ exec[q].pc = "recovered" => UNCHANGED <<exec[q], ready[q], once[q]>>]_vars

\* C13: the worker of an Async call panicked in its unit; the promise is
\* pending, and Main, which called Get on it, has not panicked and waits.
C13_Witness ==
    /\ script.name = "Read"
    /\ exec[script.get].pc = "recovered"
    /\ exec[script.get].err = "worker panicked"
    /\ ~ready[script.get]
    /\ caller[Main].pc = "Get"
    /\ caller[Main].p = script.get

\* The program's call of f with its arguments cannot succeed: f is not a
\* function, the number of arguments is wrong, f has not exactly one result,
\* an argument is neither an int nor a promise of one, the worker panics, or
\* its result is not of the type asked for.
MustFail ==
    \/ ~IsFunc(script.f)
    \/ /\ Len(script.args) # NumIn(script.f)
       /\ ~(Len(script.args) = NumIn(script.f) + 1 /\ IsBool(script.args[Len(script.args)]))
    \/ NumOut(script.f) # 1
    \/ ~PlainOrPromise
    \/ Panics(script.f)
    \/ ~ResultOk(script.f)

\* Main's Sync has ended in a panic.
SyncPanicked == caller[Main].pc = "panicked" /\ caller[Main].op = "Sync"

\* C14 (SpecScript): in the programs that call Sync with plain values and
\* promises, a Sync whose call cannot succeed never returns a value;
\* the program stops only with a panic in Main, that of the Sync when Sync is
\* the program's only call of f; a Sync that panicked
\* returned nothing, and it panicked only when the call could not succeed;
\* and Main's unit leaves executeFunction only by returning or panicking, in
\* that same step.
C14_SyncPropagates ==
    /\ [](script.name \in {"SyncOnly", "Call"} =>
            /\ MustFail => ~SyncReturned
            /\ (MustFail /\ ~ENABLED NextScript) =>
                   /\ caller[Main].pc = "panicked"
                   /\ script.name = "SyncOnly" => SyncPanicked
            /\ SyncPanicked =>
                   /\ MustFail
                   /\ caller[Main].ret = None
                   /\ caller[Main].err \in
                          ExecErrors \cup {"expected a function", "wrong argument count"}
                   /\ exec[Main] = NoFrame)
    /\ [][(/\ script.name \in {"SyncOnly", "Call"}
            /\ exec[Main].pc = "resolve"
            /\ exec'[Main].pc # "resolve") =>
              \/ SyncPanicked' /\ caller'[Main].err \in ExecErrors
              \/ SyncReturned' /\ ~MustFail]_vars

\* C14: the worker panicked inside Sync and the panic is Main's.
C14_Witness ==
    /\ script.name = "SyncOnly"
    /\ SyncPanicked
    /\ caller[Main].err = "worker panicked"
    /\ caller[Main].ret = None

\* C15 (SpecScript), as stated: an Async call builds a promise only for a
\* function with exactly one result; for any other function it has panicked
\* in Main with no promise built.
C15_ArityAtCallSite ==
    [][\A q \in ScriptIds : AsyncBuilds(q) => NumOut(exec'[q].f) = 1]_vars

\* C15: Async was called with a function of two results and has returned a
\* pending promise to Main, which has not panicked; the failure was raised and
\* recovered in the spawned unit, and Main's Get on the promise waits.
C15_Observed ==
    /\ script.name = "Read"
    /\ script.setup[script.get] = Instr("Async", "TwoOut", <<>>)
    /\ origin[script.get].kind = "Async"
    /\ exec[script.get].pc = "recovered"
    /\ exec[script.get].err = "must have exactly one return value"
    /\ ~ready[script.get]
    /\ caller[Main].pc = "Get"

\* f is called with one more argument than it has parameters, the last a bool.
FlagGiven(f, args) == Len(args) = NumIn(f) + 1 /\ IsBool(args[Len(args)])

\* The call of f with args is a usage error: f is not a function, or the
\* number of arguments, a flag not counted, is not that of f's parameters.
BadCall(f, args) == ~IsFunc(f) \/ (Len(args) # NumIn(f) /\ ~FlagGiven(f, args))

\* The panic such a call ends with.
BadCallError(f) == IF ~IsFunc(f) THEN "expected a function" ELSE "wrong argument count"

\* The last Async call of the program's setup, and the promise it would build.
LastAsync == script.setup[Len(script.setup)]
LastId == Len(script.setup)

\* C16 (SpecScript): when the program's Async call is a usage error, its
\* promise is never built and no unit is started for it, Main is never harmed
\* by anything else, and the program stops only with Main panicked in Async
\* with that error; when its Sync call is one, Main never enters
\* executeFunction and the program stops only with Main panicked in Sync with
\* that error.
C16_UsageErrors ==
    /\ (script.name \in {"Read", "Call"} /\ BadCall(LastAsync.f, LastAsync.args)) =>
           /\ nextId <= LastId
           /\ origin[LastId].kind = "none"
           /\ exec[LastId] = NoFrame
           /\ caller[Main].pc \in {"idle", "panicked"}
           /\ caller[Main].pc = "panicked" =>
                  /\ caller[Main].op = "Async"
                  /\ caller[Main].err = BadCallError(LastAsync.f)
                  /\ nextId = LastId
           /\ ~ENABLED NextScript => caller[Main].pc = "panicked"
    /\ (script.name = "SyncOnly" /\ BadCall(script.f, script.args)) =>
           /\ exec[Main] = NoFrame
           /\ caller[Main].pc \in {"idle", "panicked"}
           /\ caller[Main].pc = "panicked" =>
                  /\ caller[Main].op = "Sync"
                  /\ caller[Main].err = BadCallError(script.f)
           /\ ~ENABLED NextScript => caller[Main].pc = "panicked"

\* C16: Async was called with one argument too many, not a bool; Main has
\* panicked with the wrong-argument-count error and the call's promise was
\* not built.
C16_Witness ==
    /\ script.name = "Read"
    /\ LastAsync.f = "Square"
    /\ Len(LastAsync.args) = NumIn("Square") + 1
    /\ caller[Main].pc = "panicked"
    /\ caller[Main].op = "Async"
    /\ caller[Main].err = "wrong argument count"
    /\ nextId = LastId
    /\ exec[LastId] = NoFrame

\* While unit u runs the call of f with args, its frame holds f's own
\* arguments without the flag, and its mode is recursive exactly when a flag
\* was given and is true; the call had as many arguments as f has parameters,
\* or one more, a bool.
FlagHandled(u, f, args) ==
    (exec[u].pc = "resolve" /\ exec[u].f = f) =>
        /\ \/ Len(args) = NumIn(f)
           \/ FlagGiven(f, args)
        /\ exec[u].args = SubSeq(args, 1, NumIn(f))
        /\ Len(exec[u].res) <= NumIn(f)
        /\ exec[u].rec = (FlagGiven(f, args) /\ args[Len(args)] = BoolV(TRUE))

\* The call of f with args is never refused for its argument count unless the
\* count, a flag not counted, is wrong; one argument too many that is no bool
\* is refused.
CountChecked(c, f, args) ==
    /\ (caller[c].err = "wrong argument count") => BadCall(f, args)
    /\ (IsFunc(f) /\ Len(args) = NumIn(f) + 1 /\ ~IsBool(args[Len(args)])) =>
           /\ caller[c].pc \in {"idle", "panicked"}
           /\ caller[c].pc = "panicked" => caller[c].err = "wrong argument count"
           /\ ~ENABLED NextScript => caller[c].pc = "panicked"

\* C17 (SpecScript): in every program, for its Sync call on Main's unit and
\* for its last Async call on the unit of that call's promise: a trailing bool
\* beyond f's parameter count sets the mode and is not among the arguments
\* resolved for f; with exactly f's parameter count nothing is removed and the
\* mode is shallow, a trailing bool included; an extra argument that is no bool
\* ends the call with the wrong-argument-count error.
C17_TrailingFlag ==
    /\ script.name \in {"SyncOnly", "Call", "Slice"} =>
           /\ FlagHandled(Main, script.f, script.args)
           /\ CountChecked(Main, script.f, script.args)
    /\ script.name \in {"Read", "Call"} =>
           /\ FlagHandled(LastId, LastAsync.f, LastAsync.args)
           /\ CountChecked(Main, LastAsync.f, LastAsync.args)

\* C17: Sync(Square, p, true) was called with p a promise: the frame's mode is
\* recursive, the flag is not among its arguments, and the one argument has been
\* resolved to the value of p.
C17_Witness ==
    /\ script.name = "SyncOnly"
    /\ script.f = "Square"
    /\ \E p \in ScriptIds : script.args = <<PromV(p), BoolV(TRUE)>>
    /\ exec[Main].pc = "resolve"
    /\ exec[Main].args = <<script.args[1]>>
    /\ exec[Main].rec = TRUE
    /\ exec[Main].res = <<IntV(value[script.args[1].n])>>

\* The program is Sync(SumSlice, arr) with arr a slice of promises, no flag.
SliceNoFlag == script.name = "Slice" /\ script.args = <<SliceOfPromises>>

\* The sum of the values the promises of arr hold.
SliceSum == SumOf([i \in 1..SliceLen |-> IntV(value[SliceOfPromises.n[i].n])])

\* C18 (SpecScript), as stated: Sync(SumSlice, arr) without a flag does not
\* panic, returns the sum of the values of arr's promises, and the program
\* stops only when it has.
C18_NestedByDefault ==
    SliceNoFlag =>
        /\ ~SyncPanicked
        /\ SyncReturned => caller[Main].ret = SliceSum
        /\ ~ENABLED NextScript => SyncReturned

\* C18: all promises of arr are ready and Sync(SumSlice, arr) without a flag
\* has panicked: the slice of promises was handed on as it is and is no slice
\* of int.
C18_Observed ==
    /\ SliceNoFlag
    /\ \A i \in 1..SliceLen : ready[SliceOfPromises.n[i].n]
    /\ SyncPanicked
    /\ caller[Main].err = "argument has wrong type"

\* C19 (SpecScriptFair): in the programs that call Async and then Sync with
\* the same f and arguments: when Sync has returned v, the promise of the
\* Async call, once ready, holds v, the Get on it does return, and it returns
\* v; when Sync has panicked inside executeFunction, the promise is not ready
\* and its unit, once it has failed, failed with the same error.
C19_SameResult ==
    /\ [](script.name = "Call" =>
            /\ (SyncReturned /\ ready[script.get]) =>
                   value[script.get] = caller[Main].ret
            /\ SyncPanicked =>
                   /\ ~ready[script.get]
                   /\ exec[script.get].pc \in {"resolve", "recovered"}
                   /\ exec[script.get].pc = "recovered" =>
                          exec[script.get].err = caller[Main].err)
    /\ [][(script.name = "Call" /\ SyncReturned /\ Got(Main, script.get)') =>
              caller'[Main].ret = caller[Main].ret]_vars
    /\ (script.name = "Call" /\ SyncReturned) ~> Got(Main, script.get)

\* C19: Sync(Add, p, r) has returned the sum of the values of the promises p
\* and r while the unit of Async(Add, p, r) is still resolving its arguments.
C19_Witness ==
    /\ script.name = "Call"
    /\ script.f = "Add"
    /\ \E p \in ScriptIds, r \in ScriptIds :
           /\ p # r
           /\ script.args = <<PromV(p), PromV(r)>>
           /\ SyncReturned
           /\ caller[Main].ret = value[p] + value[r]
    /\ exec[script.get].pc = "resolve"
    /\ ~ready[script.get]

\* The failures that follow the worker's call.
WorkerErrors == {"worker panicked", "return type does not match"}

\* The step is the one in which unit u calls the worker function, whether the
\* call and the result's check succeed or not.
WorkerRuns(u) ==
    /\ exec[u].pc = "resolve"
    /\ \/ exec'[u].pc = "called"
       \/ exec'[u].err \in WorkerErrors
       \/ u \in Callers /\ caller'[u].pc = "returned"
       \/ u \in Callers /\ caller'[u].pc = "panicked" /\ caller'[u].err \in WorkerErrors

\* The steps a unit's position can take: into the argument loop at the call,
\* out of it into the worker's call or a failure, and on to the resolution of
\* the promise; never back.
PcOrder ==
    {<<"none", "resolve">>, <<"resolve", "called">>, <<"resolve", "recovered">>,
     <<"resolve", "none">>, <<"called", "closing">>, <<"closing", "done">>}

\* C20 (SpecScript): a unit's position only moves forward, so that it leaves
\* the argument loop once; it calls the worker only with every argument
\* resolved, and that step ends the loop; a step of the loop resolves one
\* more argument and keeps those resolved; a promise of Async is ready only
\* after its unit passed the worker's call, and Sync returns only in the step
\* that makes the call; a unit's failure and Main's panic are final, nothing
\* is run again.
C20_ExactlyOnce ==
    [][/\ \A u \in ScriptUnits :
             /\ exec'[u].pc # exec[u].pc => <<exec[u].pc, exec'[u].pc>> \in PcOrder
             /\ (u \in ScriptIds /\ origin[u].kind # "none" /\ exec[u].pc # "resolve")
                    => exec'[u].pc # "resolve"
             /\ WorkerRuns(u) =>
                    /\ Len(exec[u].res) = Len(exec[u].args)
                    /\ Len(exec[u].args) = NumIn(exec[u].f)
                    /\ exec'[u].pc # "resolve"
             /\ (exec[u].pc = "resolve" /\ exec'[u].pc = "resolve"
                     /\ exec'[u].res # exec[u].res) =>
                    /\ Len(exec'[u].res) = Len(exec[u].res) + 1
                    /\ SubSeq(exec'[u].res, 1, Len(exec[u].res)) = exec[u].res
                    /\ exec'[u].args = exec[u].args
             /\ (exec[u].pc = "resolve" /\ exec'[u].pc \in {"recovered", "none"}
                     /\ ~WorkerRuns(u)) =>
                    \/ exec'[u].err \in ExecErrors \ WorkerErrors
                    \/ u \in Callers /\ caller'[u].err \in ExecErrors \ WorkerErrors
             /\ exec[u].pc = "recovered" => exec'[u] = exec[u]
       /\ \A q \in ScriptIds :
             (~ready[q] /\ ready'[q] /\ origin[q].kind = "Async")
                 => exec[q].pc = "closing"
       /\ (~SyncReturned /\ SyncReturned') => WorkerRuns(Main)
       /\ caller[Main].pc = "panicked" => caller'[Main] = caller[Main]
       /\ (caller[Main].op = "Sync" /\ AtRest(Main)) => exec'[Main].pc # "resolve"]_vars

\* C20: the unit of Async(Add, p, r) has resolved both arguments, called Add
\* and resolved its promise with the sum.
C20_Witness ==
    /\ script.name = "Read"
    /\ LastAsync.f = "Add"
    /\ \E p \in ScriptIds, r \in ScriptIds :
           /\ p # r
           /\ LastAsync.args = <<PromV(p), PromV(r)>>
           /\ value[LastId] = value[p] + value[r]
    /\ exec[LastId].pc = "done"
    /\ ready[LastId]

\* ----------------------------------------------------- the resolver's claims
\* The call of the resolver has returned or panicked, in recursive mode.
Recursed == rv.pc \in {"resolved", "assigned", "failed"} /\ rv.mode = "recursive"

\* A promise that is not a nil pointer.
IsReady(v) == v.k = "promise" /\ v.elems # <<>>

\* The payload at the end of a chain of promises.
RECURSIVE Innermost(_)
Innermost(v) == IF IsReady(v) THEN Innermost(v.elems[1]) ELSE v

\* The number of promises of a chain.
RECURSIVE ChainDepth(_)
ChainDepth(v) == IF IsReady(v) THEN 1 + ChainDepth(v.elems[1]) ELSE 0

\* C21: in recursive mode a promise, whatever the length of the chain of
\* promises behind it, resolves as the payload at the end of the chain does:
\* a chain that ends in an int gives that int against the shape int, and a
\* slice of chains that end in ints gives the slice of those ints against
\* []int, also when the slice is itself the payload of a promise.
C21_Transitive ==
    Recursed =>
        LET inner == Innermost(rv.input) IN
        /\ IsReady(rv.input) => rv.out \in resolveValue(inner, rv.shape)
        /\ (inner.k = "int" /\ rv.shape = TInt) => rv.out = Ok(inner)
        /\ (/\ inner.k = "slice"
            /\ \A i \in 1..Len(inner.elems) : Innermost(inner.elems[i]).k = "int"
            /\ rv.shape = TSlice(TInt))
               => rv.out = Ok(VSlice(TInt, [i \in 1..Len(inner.elems) |->
                                               Innermost(inner.elems[i])]))

\* C21: a chain of three promises that ends in 1 has resolved to 1, and a
\* promise of a slice of two promises to the slice of their payloads.
C21_Witness ==
    /\ Recursed
    /\ \/ ChainDepth(rv.input) = 3 /\ rv.shape = TInt /\ rv.out = Ok(VInt(1))
       \/ /\ ChainDepth(rv.input) = 1
          /\ Innermost(rv.input).k = "slice"
          /\ Len(Innermost(rv.input).elems) = 2
          /\ ChainDepth(Innermost(rv.input).elems[1]) = 1
          /\ rv.shape = TSlice(TInt)
          /\ rv.out.s = "ok"

\* What the resolver works on once the promises in front of it are taken
\* off: a value to resolve, neither nil nor a nil promise.
Inner == Innermost(rv.input)
HasValue == Inner # VNil /\ Inner.k # "promise"

\* The elements of the sequence s all have an outcome that is a value, resolved
\* against the element type et.
ElemsResolve(s, et) ==
    \A i \in 1..Len(s) : \E o \in resolveValue(s[i], et) : o.s = "ok"

\* The first element of s that has an outcome that is an error.
FirstFailing(s, et) ==
    CHOOSE i \in 1..Len(s) :
        /\ \E o \in resolveValue(s[i], et) : o.s # "ok"
        /\ \A j \in 1..(i - 1) : \E o \in resolveValue(s[j], et) : o.s = "ok"

\* The sequence out holds, position by position, a resolution of the
\* elements of s against et.
Elementwise(out, s, et) ==
    /\ Len(out) = Len(s)
    /\ \A i \in 1..Len(s) : Ok(out[i]) \in resolveValue(s[i], et)

\* C22: in recursive mode a slice resolved against a slice type gives a slice
\* of that type and of the same length whose element i is the resolution of
\* element i of the input against the element type; a value that is not a
\* slice gives the error "expected a slice"; and an element whose resolution
\* fails makes the whole resolution fail with an error that carries the index
\* of that element.
C22_SliceElementwise ==
    (Recursed /\ HasValue /\ rv.shape.k = "slice") =>
        IF Inner.k # "slice"
        THEN rv.out.s = "error" /\ rv.out.e.msg = "expected a slice"
        ELSE IF ElemsResolve(Inner.elems, Elem(rv.shape))
        THEN /\ rv.out.s = "ok"
             /\ rv.out.v.k = "slice"
             /\ rv.out.v.t = rv.shape
             /\ Elementwise(rv.out.v.elems, Inner.elems, Elem(rv.shape))
        ELSE /\ rv.out.s = "error"
             /\ rv.out.e.path # <<>>
             /\ rv.out.e.path[1] =
                    Ctx("index", FirstFailing(Inner.elems, Elem(rv.shape)) - 1, VNil)

\* C22: a slice of interface{} that holds nil, or a promise of nil, was
\* resolved against []interface{}: every element resolves (nil to nil), and
\* the resolver panicked where it stores the nil element.
C22_Observed ==
    /\ Recursed
    /\ rv.input.k = "slice"
    /\ rv.shape = TSlice(TIface)
    /\ ElemsResolve(rv.input.elems, TIface)
    /\ \E i \in 1..Len(rv.input.elems) : Innermost(rv.input.elems[i]) = VNil
    /\ rv.out = Panic("reflect: call of reflect.Value.Set on zero Value")

\* The keys and the values of the entries all have an outcome that is a
\* value, resolved against the key type and the element type of t.
EntriesResolve(entries, t) ==
    \A en \in entries :
        /\ \E o \in resolveValue(en[1], Key(t)) : o.s = "ok"
        /\ \E o \in resolveValue(en[2], Elem(t)) : o.s = "ok"

\* The entry on is a resolution of the entry en against the map type t.
ResolvesEntry(on, en, t) ==
    /\ Ok(on[1]) \in resolveValue(en[1], Key(t))
    /\ Ok(on[2]) \in resolveValue(en[2], Elem(t))

\* C23: in recursive mode a map whose keys and values all resolve, resolved
\* against a map type, gives a map of that type with exactly one entry for
\* each entry of the input, the key resolved against the key type and the
\* value against the element type, also when the keys are promises.
C23_MapEntries ==
    (/\ Recursed
     /\ HasValue
     /\ rv.shape.k = "map"
     /\ Inner.k = "map"
     /\ EntriesResolve(Inner.entries, rv.shape)) =>
        /\ rv.out.s = "ok"
        /\ rv.out.v.k = "map"
        /\ rv.out.v.t = rv.shape
        /\ Cardinality(rv.out.v.entries) = Cardinality(Inner.entries)
        /\ \A en \in Inner.entries :
               \E on \in rv.out.v.entries : ResolvesEntry(on, en, rv.shape)

\* C23: a map with the single entry 1: nil was resolved against
\* map[int]interface{}, and the map returned has no entry.
C23_Observed ==
    /\ Recursed
    /\ rv.input.k = "map"
    /\ rv.shape = TMap(TInt, TIface)
    /\ rv.input.entries = {<<VInt(1), VNil>>}
    /\ rv.out = Ok(MapVal(rv.shape, {}))

\* C24: in recursive mode, against a pointer type, a value that is not a
\* pointer gives the error "expected a pointer" with both types; a nil
\* pointer gives the nil pointer of the expected type; and a pointer whose
\* pointee resolves gives a pointer of the expected type, newly allocated, to
\* the resolution of the pointee against the pointee type: to the same int
\* where the pointee is an int, or a chain of promises that ends in one.
C24_Pointer ==
    (Recursed /\ HasValue /\ rv.shape.k = "ptr") =>
        IF Inner.k # "ptr"
        THEN /\ rv.out.s = "error"
             /\ rv.out.e.msg = "expected a pointer"
             /\ rv.out.e.exp = rv.shape
             /\ rv.out.e.got = Inner.t
        ELSE IF Inner.elems = <<>>
        THEN rv.out = Ok(SeqVal("ptr", rv.shape, 0, <<>>))
        ELSE (\E o \in resolveValue(Inner.elems[1], Elem(rv.shape)) : o.s = "ok") =>
                /\ rv.out.s = "ok"
                /\ rv.out.v.k = "ptr"
                /\ rv.out.v.t = rv.shape
                /\ rv.out.v.id = NewAddr
                /\ rv.out.v.id # Inner.id
                /\ Len(rv.out.v.elems) = 1
                /\ Ok(rv.out.v.elems[1]) \in resolveValue(Inner.elems[1], Elem(rv.shape))
                /\ (Innermost(Inner.elems[1]).k = "int" /\ rv.shape = TPtr(TInt))
                       => rv.out.v.elems[1] = Innermost(Inner.elems[1])

\* C24: a pointer to an interface{} that holds nil was resolved against
\* *interface{}: the pointee resolves to nil, and the resolver panicked where
\* it stores it behind the new pointer.
C24_Observed ==
    /\ Recursed
    /\ rv.input.k = "ptr"
    /\ rv.input.elems = <<VNil>>
    /\ rv.shape = TPtr(TIface)
    /\ rv.out = Panic("reflect: call of reflect.Value.Set on zero Value")

\* The outcome is the length error of the array case, with the expected and
\* the actual length.
LengthError(o, t, input) ==
    /\ o.s = "error"
    /\ o.e.msg = "expected array of length"
    /\ o.e.elen = t.len
    /\ o.e.glen = Len(input.elems)

\* C25 (as claimed): in recursive mode a slice or an array whose length
\* differs from the length of the expected array type is rejected with a
\* length error that reports the expected and the actual length.
C25_LengthError ==
    (/\ Recursed
     /\ HasValue
     /\ rv.shape.k = "array"
     /\ Inner.k \in {"slice", "array"}
     /\ Len(Inner.elems) # rv.shape.len) => LengthError(rv.out, rv.shape, Inner)

\* C25 (amended): against an array type, an array of a different length is
\* rejected with a length error that reports the expected and the actual
\* length, and a slice is rejected, whatever its length, with the error
\* "expected an array" that names the kind slice and reports no length.
C25_ArrayLength ==
    (Recursed /\ HasValue /\ rv.shape.k = "array") =>
        /\ (Inner.k = "array" /\ Len(Inner.elems) # rv.shape.len)
               => LengthError(rv.out, rv.shape, Inner)
        /\ Inner.k = "slice" =>
               /\ rv.out.s = "error"
               /\ rv.out.e.msg = "expected an array"
               /\ rv.out.e.got.k = "slice"
               /\ rv.out.e.elen = 0 /\ rv.out.e.glen = 0

\* C25: an array of one element was resolved against an array type of length
\* two and rejected with the length error for 2 and 1.
C25_Witness ==
    /\ Recursed
    /\ Inner.k = "array"
    /\ Len(Inner.elems) = 1
    /\ rv.shape.k = "array"
    /\ rv.shape.len = 2
    /\ rv.out.s = "error"
    /\ rv.out.e.elen = 2
    /\ rv.out.e.glen = 1

\* The value holds a promise, at any depth, behind pointers, in slices and
\* arrays, and among the keys and values of maps.
RECURSIVE HasPromise(_)
HasPromise(v) ==
    \/ IsReady(v)
    \/ \E i \in 1..Len(v.elems) : HasPromise(v.elems[i])
    \/ \E en \in v.entries : HasPromise(en[1]) \/ HasPromise(en[2])

\* The type is built of basic types, pointers, slices, arrays and maps only:
\* neither interface{} nor a promise type is part of it.
RECURSIVE Concrete(_)
Concrete(t) ==
    /\ t.k \notin {"interface", "promise"}
    /\ \A i \in 1..Len(t.e) : Concrete(t.e[i])
    /\ \A i \in 1..Len(t.key) : Concrete(t.key[i])

\* C26 (as claimed): the value a recursive resolution returns, and the
\* argument made of it, hold no promise at any depth.
C26_NoPromiseLeft ==
    /\ (Recursed /\ rv.out.s = "ok") => ~HasPromise(rv.out.v)
    /\ (Recursed /\ rv.pc = "assigned") => ~HasPromise(rv.arg.v)

\* C26 (amended): the value a recursive resolution returns against a type
\* that has neither interface{} nor a promise type in it, and the argument
\* made of it, hold no promise at any depth.
C26_NoPromiseInTyped ==
    (Recursed /\ Concrete(rv.shape)) =>
        /\ rv.out.s = "ok" => ~HasPromise(rv.out.v)
        /\ rv.pc = "assigned" => ~HasPromise(rv.arg.v)

\* C26: a slice of slices of promises, with a promise in it, has become the
\* argument for a parameter of type [][]int.
C26_Witness ==
    /\ Recursed
    /\ rv.pc = "assigned"
    /\ rv.input.t = TSlice(TSlice(TPromise(TInt)))
    /\ HasPromise(rv.input)
    /\ rv.shape = TSlice(TSlice(TInt))
    /\ rv.arg.s = "ok"

\* C27: in recursive mode, against interface{}, the resolver returns what is
\* behind the promises in front of its input, as it is; and against
\* []interface{} a slice gives a slice of the same length whose slot i holds
\* element i of the input if that is no promise, and else the payload at the
\* end of its chain, so that no slot holds a promise.
C27_OpenShape ==
    (Recursed /\ HasValue) =>
        /\ rv.shape = TIface => rv.out = Ok(Inner)
        /\ (rv.shape = TSlice(TIface) /\ Inner.k = "slice") =>
               /\ rv.out.s = "ok"
               /\ Len(rv.out.v.elems) = Len(Inner.elems)
               /\ \A i \in 1..Len(Inner.elems) :
                      /\ rv.out.v.elems[i] = Innermost(Inner.elems[i])
                      /\ ~IsReady(rv.out.v.elems[i])

\* C27: the slice of interface{} that holds the plain value 1 and nil was
\* resolved against []interface{}, and the resolver panicked.
C27_Observed ==
    /\ Recursed
    /\ rv.input = VSlice(TIface, <<VInt(1), VNil>>)
    /\ rv.shape = TSlice(TIface)
    /\ rv.out.s = "panic"

\* The basic types among the parameter types.
Scalar(t) == t.k \in {"int", "float64", "bool"}

\* The outcome o fits the value v to the basic type t: v itself if it has the
\* type t, the float64 of the same number for an int, the int below it for a
\* float64 (floats are counted in halves).
FitsScalar(o, v, t) ==
    /\ o.s = "ok"
    /\ o.v.t = t
    /\ IF v.t = t THEN o.v = v
       ELSE IF t = TFloat THEN v.k = "int" /\ o.v.num = 2 * v.num
       ELSE v.k = "float64" /\ t = TInt /\ 2 * o.v.num + 1 = v.num

\* What shallowResolve leaves of the input: the payload of a promise, or the
\* input.
Top == IF IsReady(rv.input) THEN rv.input.elems[1] ELSE rv.input

\* C28: against a basic type, a value of that type is returned unchanged, a
\* number of the other numeric type is converted, and any other value makes
\* the resolution fail with the error "cannot assign or convert" that names
\* the type of the value and the expected type; in shallow mode the same
\* holds where the argument is fitted to the parameter, the failure being
\* the panic "argument has type ..., expected ...".
C28_Scalar ==
    /\ (Recursed /\ HasValue /\ Scalar(rv.shape)) =>
           IF Inner.t = rv.shape \/ (Inner.k \in Numeric /\ rv.shape.k \in Numeric)
           THEN FitsScalar(rv.out, Inner, rv.shape)
           ELSE /\ rv.out.s = "error"
                /\ rv.out.e.msg = "cannot assign or convert"
                /\ rv.out.e.got = Inner.t
                /\ rv.out.e.exp = rv.shape
    /\ (/\ rv.pc \in {"assigned", "failed"}
        /\ rv.mode = "shallow"
        /\ rv.out.s = "ok"
        /\ Top # VNil
        /\ Scalar(rv.shape)) =>
           IF Top.t = rv.shape \/ (Top.k \in Numeric /\ rv.shape.k \in Numeric)
           THEN FitsScalar(rv.arg, Top, rv.shape)
           ELSE /\ rv.arg.s = "panic"
                /\ rv.arg.e.msg = "argument has wrong type"
                /\ rv.arg.e.got = Top.t
                /\ rv.arg.e.exp = rv.shape

\* C28: the int 1 behind a promise was resolved against float64 and came out
\* as the float64 1.
C28_Witness ==
    /\ Recursed
    /\ rv.input = VPromise(TInt, 1, VInt(1))
    /\ rv.shape = TFloat
    /\ rv.out = Ok(VFloat(2))

\* The shallow resolution of the argument has returned.
Shallowed == rv.pc \in {"resolved", "assigned", "failed"} /\ rv.mode = "shallow"

\* C29: in shallow mode an argument that is a promise is replaced by its
\* payload, one level only (a promise of a promise leaves a promise), and any
\* other argument that is not nil, a container that holds promises included,
\* is handed on as it is: a parameter of type interface{} receives it
\* unchanged, promises and all.
C29_Shallow ==
    (Shallowed /\ rv.input # VNil /\ rv.input # Zero(TPromise(TInt))) =>
        /\ IsReady(rv.input) =>
               /\ rv.out = Ok(rv.input.elems[1])
               /\ ChainDepth(rv.out.v) = ChainDepth(rv.input) - 1
        /\ ~IsReady(rv.input) =>
               /\ rv.out = Ok(rv.input)
               /\ HasPromise(rv.out.v) = HasPromise(rv.input)
               /\ (rv.shape = TIface /\ rv.pc # "resolved") => rv.arg = Ok(rv.input)

\* C29: a promise of a promise of an int was resolved in shallow mode and
\* the inner promise is the result.
C29_Witness ==
    /\ Shallowed
    /\ ChainDepth(rv.input) = 2
    /\ IsReady(rv.out.v)
    /\ rv.out.v = rv.input.elems[1]

\* The mode in which Sync(SumSlice, x) resolves x, for an x that is no bool.
NoFlagMode ==
    IF Recursive("SumSlice", <<SliceV(<<>>)>>) THEN "recursive" ELSE "shallow"

\* The nil slice and the nil map of promises, and what the workers of
\* TestNilInput are to receive for them.
NilSlice == VSlice(TPromise(TInt), <<>>)
NilMap == VMap(TInt, TPromise(TInt), {})

\* A nil input has been resolved, in either mode, to the zero value of the
\* parameter type, and fitted to the parameter as that zero value.
NilToZero ==
    (rv.pc \in {"resolved", "assigned", "failed"} /\ rv.input = VNil) =>
        /\ rv.out.s = "ok"
        /\ rv.out.v.k = (IF rv.shape = TIface THEN "nil" ELSE rv.shape.k)
        /\ rv.out.v.num = 0
        /\ rv.out.v.entries = {}
        /\ rv.out.v.elems =
               (IF rv.shape.k = "array" THEN [i \in 1..rv.shape.len |-> Zero(Elem(rv.shape))]
                ELSE <<>>)
        /\ rv.pc # "failed"
        /\ rv.pc = "assigned" => rv.arg = rv.out

\* C30: a nil input resolves in both modes to the zero value of the parameter
\* type; and the nil slice and the nil map of promises that Sync is given
\* without a flag reach the worker as the empty []int and the empty map.
C30_Nil ==
    /\ NilToZero
    /\ (rv.pc \in {"assigned", "failed"} /\ rv.mode = NoFlagMode) =>
           /\ (rv.input = NilSlice /\ rv.shape = TSlice(TInt))
                  => rv.arg = Ok(VSlice(TInt, <<>>))
           /\ (rv.input = NilMap /\ rv.shape = TMap(TInt, TInt))
                  => rv.arg = Ok(VMap(TInt, TInt, {}))

\* C30: the nil slice of promises was resolved in the mode of a Sync without
\* a flag for a parameter of type []int, and executeFunction panicked on the
\* type of the argument.
C30_Observed ==
    /\ rv.pc = "failed"
    /\ rv.mode = NoFlagMode
    /\ rv.input = NilSlice
    /\ rv.shape = TSlice(TInt)
    /\ rv.out = Ok(NilSlice)
    /\ rv.arg.s = "panic"
    /\ rv.arg.e.msg = "argument has wrong type"

\* ---------------------------------------------------------------------------
\* C31: a result that is not a T

\* The panic of executeFunction's type assertion on the worker's result.
Mismatch == "return type does not match"

\* The worker returns a string where T is int.
ReturnsText(f) == f = "Text"

\* Call j of the program's setup is an Async of a worker whose result is not a T.
AsyncOfWrong(j) ==
    /\ j \in 1..Len(script.setup)
    /\ script.setup[j].op = "Async"
    /\ ReturnsText(script.setup[j].f)

\* Unit u has resolved every argument and its next step calls the worker.
AtCall(u) ==
    /\ exec[u].pc = "resolve"
    /\ ValidateError(exec[u].f) = "none"
    /\ Len(exec[u].res) = Len(exec[u].args)

\* C31 (SpecScript): a Sync of a worker whose result is not a T never returns
\* a value, and when it has panicked nothing was returned; the promise of an
\* Async of such a worker is never ready, holds no value and its once-guard is
\* never used; the return-type panic arises only in the step in which the
\* unit, all arguments resolved, calls the worker, never earlier; in Sync it
\* is the caller's panic, in Async it ends the unit and nothing else; and a
\* unit that calls such a worker ends with that panic in that step.
C31_ReturnMismatch ==
    /\ []( /\ (script.sync = "Sync" /\ ReturnsText(script.f)) =>
                  /\ ~SyncReturned
                  /\ SyncPanicked => caller[Main].ret = None
           /\ \A j \in ScriptIds :
                  AsyncOfWrong(j) =>
                      /\ ~ready[j]
                      /\ value[j] = ZeroValue
                      /\ once[j] = "idle"
                      /\ exec[j].pc \notin {"called", "closing", "done"}
           /\ \A j \in ScriptIds :
                  (origin[j].kind = "Async" /\ ready[j]) => ~ReturnsText(script.setup[j].f) )
    /\ [][ /\ (caller'[Main].err = Mismatch /\ caller[Main].err # Mismatch) =>
                  /\ AtCall(Main)
                  /\ ReturnsText(exec[Main].f)
                  /\ SyncPanicked'
                  /\ exec'[Main] = NoFrame
           /\ \A j \in ScriptIds :
                  (exec'[j].err = Mismatch /\ exec[j].err # Mismatch) =>
                      /\ AtCall(j)
                      /\ ReturnsText(exec[j].f)
                      /\ exec'[j].pc = "recovered"
                      /\ UNCHANGED <<caller, value, ready, once>>
           /\ \A u \in ScriptUnits :
                  (AtCall(u) /\ ReturnsText(exec[u].f)
                     /\ exec'[u] # exec[u]) =>
                      IF u \in Callers THEN caller'[u].err = Mismatch
                      ELSE exec'[u].err = Mismatch ]_vars

\* C31: the unit of Async(Text) was ended by the return-type panic, its promise
\* pending, and the Sync of the same call has panicked in Main with that error
\* and no value.
C31_Witness ==
    /\ script.name = "Call"
    /\ LastAsync.f = "Text"
    /\ exec[LastId].pc = "recovered"
    /\ exec[LastId].err = Mismatch
    /\ ~ready[LastId]
    /\ SyncPanicked
    /\ caller[Main].err = Mismatch
    /\ caller[Main].ret = None

\* ---------------------------------------------------------------------------
\* C32: the resolver writes to nothing it was given

\* Every object of the heap before the step (the containers of the input, the
\* cells of its pointers, its promises with their payloads) is in the heap
\* after the step, at its address and unchanged.
InputKept ==
    /\ Len(rv'.heap) >= Len(rv.heap)
    /\ \A a \in 1..Len(rv.heap) : rv'.heap[a] = rv.heap[a]

\* Where the type t names a pointer, a slice or a map, v is the zero value
\* or refers to an object of h allocated behind the first old objects, and so
\* do the elements, keys and pointee that object holds.
RECURSIVE Fresh(_, _, _, _)
Fresh(h, v, t, old) ==
    t.k \in {"ptr", "slice", "map"} =>
        \/ v = Ref(0)
        \/ /\ v.k = "ref"
           /\ v.n > old
           /\ v.n <= Len(h)
           /\ h[v.n].k = t.k
           /\ \A i \in 1..Len(h[v.n].elems) : Fresh(h, h[v.n].elems[i], Elem(t), old)
           /\ t.k = "map" =>
                  \A i \in 1..Len(h[v.n].keys) : Fresh(h, h[v.n].keys[i], Key(t), old)

\* C32 (SpecHeap): a step of the resolver, recursive or shallow, leaves the
\* input value and every object that existed before it unchanged, promises
\* and their payloads included, and changes no promise of the program; the
\* shallow resolver allocates nothing; and when the recursive resolver
\* succeeds, every pointer, slice and map it rebuilt is an object that did
\* not exist before.
C32_Pure ==
    [][ rv.pc = "resolve" =>
          /\ InputKept
          /\ rv'.input = rv.input
          /\ UNCHANGED <<value, ready, once>>
          /\ rv'.pc = "shallow" => rv'.heap = rv.heap
          /\ (rv'.pc = "resolved" /\ rv'.err = "none") =>
                 Fresh(rv'.heap, rv'.out, rv.shape, Len(rv.heap)) ]_vars

\* C32: the resolver has rebuilt a slice that holds a promise of 1 as a new
\* slice that holds 1, and the input slice still holds the promise.
C32_Witness ==
    /\ rv.pc = "resolved"
    /\ rv.err = "none"
    /\ rv.shape = TSlice(TInt)
    /\ rv.input = Ref(2)
    /\ Len(rv.heap) = 3
    /\ rv.heap[1] = Object("promise", <<>>, <<IntV(1)>>)
    /\ rv.heap[2] = Object("slice", <<>>, <<Ref(1)>>)
    /\ rv.out = Ref(3)
    /\ rv.heap[3] = Object("slice", <<>>, <<IntV(1)>>)

\* ---------------------------------------------------------------------------
\* C33: who resolves a pending promise

\* The step is one of the spawned unit of p resolving p: it stores the
\* worker's result under the once-guard, or closes the ready channel.
OwnResolve(p) ==
    \/ /\ exec[p].pc = "called"
       /\ exec'[p].pc = "closing"
       /\ value'[p] = exec[p].out
       /\ ready'[p] = ready[p]
    \/ /\ exec[p].pc = "closing"
       /\ exec'[p].pc = "done"
       /\ value'[p] = value[p]

\* C33, as the specification states it (SpecOpen, the revision in which
\* Resolve and NewPending are exported): the value, the readiness and the
\* once-guard of a promise that Async or NewPending built pending are changed
\* only by the steps in which the unit Async spawned for it resolves it with
\* the worker's result; a promise of NewPending, which has no such unit, is
\* never ready.
C33_OnlyProducer ==
    [][\A p \in Allocated :
          (/\ origin[p].kind \in {"Async", "NewPending"}
           /\ <<value'[p], ready'[p], once'[p]>> # <<value[p], ready[p], once[p]>>) =>
              /\ origin[p].kind = "Async"
              /\ OwnResolve(p)]_vars

\* C33: Main has resolved the promise of an Async call itself, before the
\* unit of the call did, and Get has returned Main's value, which is not the
\* result of the worker.
C33_Observed ==
    \E p \in Allocated :
        /\ origin[p].kind = "Async"
        /\ exec[p].pc = "called"
        /\ ready[p]
        /\ value[p] # exec[p].out
        /\ Got(Main, p)
        /\ caller[Main].ret = value[p]

\* ---------------------------------------------------------------------------
\* C34: independent units

\* The promises call j of the program's setup takes as arguments, and those
\* the calls that built them take, and so on.
RECURSIVE DepsOf(_)
DepsOf(j) ==
    LET direct == {script.setup[j].args[i].n :
                     i \in {x \in 1..Len(script.setup[j].args) :
                              IsPromise(script.setup[j].args[x])}}
    IN direct \cup UNION {DepsOf(d) : d \in direct}

\* p and q are promises of two Async calls of the program, neither of which
\* takes the promise of the other, directly or through other calls.
Independent(p, q) ==
    /\ p # q
    /\ script.setup[p].op = "Async"
    /\ script.setup[q].op = "Async"
    /\ p \notin DepsOf(q)
    /\ q \notin DepsOf(p)

\* What promise j of the program holds when every call up to it succeeds:
\* the value given to New, the worker's result on the arguments of Async with
\* every promise among them replaced by what it holds.
RECURSIVE Expected(_)
Expected(j) ==
    LET call == script.setup[j]
    IN IF call.op = "New" THEN call.args[1].n
       ELSE Call(call.f,
                 [i \in 1..NumIn(call.f) |->
                     IF IsPromise(call.args[i]) THEN IntV(Expected(call.args[i].n))
                     ELSE call.args[i]])

\* A step of the unit Async spawned for q.
UnitStep(q) ==
    \/ ExecValidate(q)
    \/ ExecResolveArg(q)
    \/ ExecCall(q)
    \/ TaskResolveWrite(q)
    \/ TaskResolveClose(q)

\* The unit of q is spawned and not finished, and it does not wait for one of
\* its own argument promises.
CanRun(q) ==
    /\ exec[q].pc \in {"resolve", "called", "closing"}
    /\ (exec[q].pc = "resolve" /\ Len(exec[q].res) < Len(exec[q].args)) =>
           \A d \in Awaited(exec[q].rec, ParamKind(exec[q].f),
                            exec[q].args[Len(exec[q].res) + 1]) : ready[d]

\* C34 (SpecScript): of two independent Async calls, each unit that is not
\* finished and not waiting for its own arguments can take its next step
\* whatever the state of the other, so that when both are about to close
\* their channels either may become ready first; a step of one unit changes
\* neither the promise nor the unit of the other; and a ready promise holds
\* the worker's result on its own arguments in whichever order the two
\* became ready.
C34_NoOrder ==
    /\ [](\A p \in Allocated, q \in Allocated :
            Independent(p, q) =>
                /\ CanRun(p) => ENABLED UnitStep(p)
                /\ (exec[p].pc = "closing" /\ exec[q].pc = "closing") =>
                       /\ ENABLED (TaskResolveClose(p) /\ ready'[p] /\ ~ready'[q])
                       /\ ENABLED (TaskResolveClose(q) /\ ready'[q] /\ ~ready'[p])
                /\ ready[p] => value[p] = Expected(p))
    /\ [][\A p \in Allocated, q \in Allocated :
            (Independent(p, q) /\ exec'[q] # exec[q]) =>
                /\ exec'[p] = exec[p]
                /\ value'[p] = value[p]
                /\ ready'[p] = ready[p]
                /\ once'[p] = once[p]]_vars

\* C34: of the two Async calls of Sync(Add, Async(Square, 3), Async(Square,
\* 4)), the second is ready with 16 while the unit of the first has not yet
\* called its worker.
C34_Witness ==
    /\ script.name = "SumOfSquares"
    /\ Independent(1, 2)
    /\ ready[2]
    /\ value[2] = 16
    /\ ~ready[1]
    /\ exec[1].pc = "resolve"

\* ---------------------------------------------------------------------------
\* C35: promises in the fields of a struct

\* v refers to a struct of h.
IsStruct(h, v) == v.k = "ref" /\ v.n \in 1..Len(h) /\ h[v.n].k = "struct"

\* v refers to a struct of h whose field is a promise.
HoldsPromise(h, v) ==
    /\ IsStruct(h, v)
    /\ h[v.n].elems[1].k = "ref"
    /\ h[h[v.n].elems[1].n].k = "promise"

\* What Get() on the field of the struct v returns.
FieldGet(h, v) == h[h[v.n].elems[1].n].elems[1]

\* The argument of the call, the promises around it taken off: what the
\* parameter receives when it is a struct.
RECURSIVE Unwrapped(_, _)
Unwrapped(h, v) ==
    IF v.k = "ref" /\ h[v.n].k = "promise" THEN Unwrapped(h, h[v.n].elems[1]) ELSE v

\* C35 (SpecHeap): when the parameter is a struct and the argument a struct,
\* or a promise of one, the resolver returns that struct itself, without
\* error and without allocating, and the struct and the promise in its field
\* are what they were, so that Get() on the field returns to the worker what
\* the promise holds; the same holds of every struct in a slice of structs,
\* which the recursive resolver copies element by element and the shallow
\* one hands over as it is.
C35_StructKept ==
    [][ rv.pc = "resolve" =>
          LET h == rv.heap
              arg == Unwrapped(h, rv.input)
          IN /\ (rv.shape.k = "struct" /\ IsStruct(h, arg) /\ rv'.pc = "resolved") =>
                    /\ rv'.err = "none"
                    /\ rv'.out = arg
                    /\ rv'.heap = h
                    /\ HoldsPromise(h, arg) =>
                           /\ HoldsPromise(rv'.heap, rv'.out)
                           /\ FieldGet(rv'.heap, rv'.out) = FieldGet(h, arg)
             /\ (rv.shape.k = "struct" /\ IsStruct(h, rv.input) /\ rv'.pc = "shallow") =>
                    /\ rv'.out = rv.input
                    /\ rv'.heap = h
             /\ (/\ rv.shape = TSlice(TBasic("struct"))
                 /\ rv.input.k = "ref"
                 /\ h[rv.input.n].k = "slice"
                 /\ \A i \in 1..Len(h[rv.input.n].elems) : IsStruct(h, h[rv.input.n].elems[i])) =>
                    IF rv'.pc = "shallow" THEN rv'.out = rv.input /\ rv'.heap = h
                    ELSE /\ rv'.err = "none"
                         /\ rv'.out.n > Len(h)
                         /\ rv'.heap[rv'.out.n].elems = h[rv.input.n].elems
                         /\ \A a \in 1..Len(h) : rv'.heap[a] = h[a] ]_vars

\* C35: the recursive resolver was given a struct whose field is a promise of
\* 1 for a parameter that is a struct, and has returned that struct, its
\* field still the promise.
C35_Witness ==
    /\ rv.pc = "resolved"
    /\ rv.err = "none"
    /\ rv.shape = TBasic("struct")
    /\ rv.heap = <<Object("promise", <<>>, <<IntV(1)>>), Object("struct", <<>>, <<Ref(1)>>)>>
    /\ rv.input = Ref(2)
    /\ rv.out = Ref(2)
    /\ FieldGet(rv.heap, rv.out) = IntV(1)

\* ---------------------------------------------------------------------------
\* C36: a call that can succeed does

\* Call j of the program's setup is an Async call that nothing but a pending
\* argument can stop: f is a function of one result, an int, that does not
\* panic, the arguments are as many as the parameters, a flag not counted,
\* and each is an int or a promise.
CallFine(j) ==
    LET call == script.setup[j]
    IN /\ call.op = "Async"
       /\ IsFunc(call.f)
       /\ NumOut(call.f) = 1
       /\ ~Panics(call.f)
       /\ ~ReturnsText(call.f)
       /\ Len(call.args) = NumIn(call.f) \/ FlagGiven(call.f, call.args)
       /\ \A i \in 1..NumIn(call.f) : call.args[i].k \in {"int", "promise"}

\* The promises among the arguments of call j are all ready.
ArgsAllReady(j) ==
    \A i \in 1..Len(script.setup[j].args) :
        IsPromise(script.setup[j].args[i]) => ready[script.setup[j].args[i].n]

\* C36 (SpecScriptFair): under weak fairness of the steps of every unit and
\* of the program, once the promises among the arguments of an Async call
\* that can succeed are ready, the promise the call returned becomes ready,
\* its unit done, and a Get blocked on it returns.
C36_Liveness ==
    /\ \A j \in ScriptIds :
           (j \in Allocated /\ CallFine(j) /\ ArgsAllReady(j))
               ~> (ready[j] /\ exec[j].pc = "done")
    /\ \A j \in ScriptIds :
           (/\ j \in Allocated
            /\ CallFine(j)
            /\ ArgsAllReady(j)
            /\ caller[Main].pc = "Get"
            /\ caller[Main].p = j) ~> Got(Main, j)

\* C36: the Get on the promise of Async(Add, p, r), p the promise of an Async
\* call and r that of New, has returned the sum.
C36_Witness ==
    /\ script.name = "Read"
    /\ LastAsync.f = "Add"
    /\ LastAsync.args = <<PromV(1), PromV(2)>>
    /\ CallFine(LastId)
    /\ exec[LastId].pc = "done"
    /\ Got(Main, LastId)
    /\ caller[Main].ret = value[1] + value[2]

\* ---------------------------------------------------------------------------
\* C37: a promise that is never resolved

\* The unit of the Async promise p was ended by a recovered panic: nothing
\* resolves p any more.
Dead(p) == origin[p].kind = "Async" /\ exec[p].pc = "recovered"

\* The unit of q has not called its worker.
NotInvoked(q) ==
    \/ exec[q].pc = "resolve"
    \/ exec[q].pc = "recovered" /\ exec[q].err \notin WorkerErrors

\* The Sync call of the program has returned or panicked.
SyncLeft == SyncReturned \/ SyncPanicked

\* The Sync call of the program takes the promise p as an argument.
SyncTakes(p) ==
    /\ script.sync = "Sync"
    /\ \E i \in 1..Len(script.args) : script.args[i] = PromV(p)

\* The Sync call of the program gets as far as resolving its argument i: f is
\* a function of one result, the arguments are as many as the parameters, a
\* flag not counted, and every argument before i is an int or a promise.
ReachesArg(i) ==
    /\ script.sync = "Sync"
    /\ IsFunc(script.f)
    /\ NumOut(script.f) = 1
    /\ Len(script.args) = NumIn(script.f) \/ FlagGiven(script.f, script.args)
    /\ i \in 1..NumIn(script.f)
    /\ \A k \in 1..(i - 1) : script.args[k].k \in {"int", "promise"}

\* While a promise that an Async call takes, directly or through a chain of
\* calls, is not ready, the unit of the call has not called its worker and
\* the promise of the call is pending, its once-guard unused; and the promise
\* of a unit that a panic ended is pending for ever.
DependentsWait ==
    /\ [](\A q \in Allocated :
            script.setup[q].op = "Async" =>
                \A p \in DepsOf(q) :
                    ~ready[p] =>
                        /\ NotInvoked(q)
                        /\ ~ready[q]
                        /\ once[q] = "idle"
                        /\ value[q] = ZeroValue)
    /\ [][\A p \in Allocated : Dead(p) => ~WorkerRuns(p)]_vars
    /\ [](\A p \in Allocated : Dead(p) => ~ready[p])
    /\ [][\A p \in Allocated : Dead(p) => Dead(p)']_vars

\* C37, as the specification states it (SpecScript): a promise whose unit a
\* panic ended is never resolved, no call that depends on it calls its worker
\* or resolves its promise, and EVERY Sync call that takes it stays blocked:
\* it neither returns nor panics.
C37_Propagates ==
    /\ DependentsWait
    /\ [](\A p \in Allocated : (Dead(p) /\ SyncTakes(p)) => ~SyncLeft)

\* C37, amended (SpecScript): the same of the calls that depend on the
\* promise; of the Sync calls, those that get as far as the argument stay
\* blocked while the promise, or one it depends on, is not ready, and so
\* for ever when a panic ended its unit.
C37_PropagatesWhenReached ==
    /\ DependentsWait
    /\ [](\A i \in 1..Len(script.args) :
            (IsPromise(script.args[i]) /\ ReachesArg(i)) =>
                \A p \in {script.args[i].n} \cup DepsOf(script.args[i].n) :
                    ~ready[p] => ~SyncLeft)

\* C37: the worker of p := Async(Boom) has panicked; the units of
\* q := Async(Square, p) and r := Async(Square, q) wait with no argument
\* resolved, Main is inside Sync(Square, p), and nothing can take a step.
C37_Witness ==
    /\ script.name = "Chain"
    /\ script.args = <<PromV(1)>>
    /\ Dead(1)
    /\ exec[1].err = "worker panicked"
    /\ \A q \in {2, 3} : exec[q].pc = "resolve" /\ exec[q].res = <<>> /\ ~ready[q]
    /\ caller[Main].pc = "Sync"
    /\ exec[Main].pc = "resolve"
    /\ exec[Main].res = <<>>
    /\ ~ENABLED NextScript

\* ---------------------------------------------------------------------------
\* C38: the schedule does not decide the values

\* Whether promise j of the program is ever resolved, read off the program:
\* New resolves its promise; an Async call does when it can succeed and every
\* promise among its arguments is resolved.
RECURSIVE WillResolve(_)
WillResolve(j) ==
    \/ script.setup[j].op = "New"
    \/ /\ CallFine(j)
       /\ \A i \in 1..Len(script.setup[j].args) :
              IsPromise(script.setup[j].args[i]) => WillResolve(script.setup[j].args[i].n)

\* C38 (SpecScript): in every state of every interleaving, a ready promise of
\* an Async call holds the value the program alone determines, the worker
\* applied to the arguments with every promise replaced by the value so
\* determined, and it is a promise the program determines to be resolved; no
\* step stores another value in it; and when nothing can take a step any
\* more, the promises that are ready and their values are the same whichever
\* way the units were scheduled.
C38_Deterministic ==
    /\ [](\A j \in Allocated :
            script.setup[j].op = "Async" =>
                /\ ready[j] => (WillResolve(j) /\ value[j] = Expected(j))
                /\ (~ENABLED NextScript /\ caller[Main].pc # "panicked") =>
                       ready[j] = WillResolve(j))
    /\ [][\A j \in Allocated :
            (script.setup[j].op = "Async" /\ value'[j] # value[j]) =>
                value'[j] = Expected(j)]_vars

\* C38: in TestAsync the third Square is ready with 9 before the first Add is
\* ready; its value is the one every schedule gives it.
C38_Witness ==
    /\ script.name = "TestAsync"
    /\ ready[6]
    /\ value[6] = 9
    /\ value[6] = Expected(6)
    /\ ~ready[3]
    /\ exec[3].pc = "resolve"

\* ---------------------------------------------------------------------------
\* C39: Resolve on a promise of New

\* Caller c is inside a Resolve call on p.
Resolving(c, p) == caller[c].op = "Resolve" /\ caller[c].p = p /\ ~AtRest(c)

\* C39 (SpecLog): a promise New built is ready with its once-guard used and
\* holds the value given to New, or 0, whatever Resolve calls were made on
\* it; a Resolve call on it never gets into the guarded body, can always
\* return, and the step in which it returns changes neither the value nor
\* the channel nor the guard and is no panic; every Get on the promise returns
\* New's value.
C39_ResolveAfterNew ==
    /\ [](\A p \in Allocated :
            origin[p].kind = "New" =>
                /\ ready[p]
                /\ once[p] = "done"
                /\ value[p] = Given(origin[p].values)
                /\ \A c \in Callers :
                       /\ Resolving(c, p) =>
                              (caller[c].pc = "ResolveCall" /\ ENABLED ResolveSkip(c))
                       /\ caller[c].pc = "panicked" => caller[c].op # "Resolve"
                       /\ Got(c, p) => caller[c].ret = Given(origin[p].values))
    /\ [][\A c \in Callers, p \in Allocated :
            (origin[p].kind = "New" /\ Resolving(c, p) /\ caller'[c] # caller[c]) =>
                /\ caller'[c] = IdleCaller
                /\ value'[p] = value[p]
                /\ ready'[p] = ready[p]
                /\ once'[p] = once[p]]_vars

\* C39: Resolve(0) on the promise of New(1) has returned, and the Get after it
\* returned 1.
C39_Witness ==
    \E p \in Allocated, c \in Callers :
        /\ origin[p] = [kind |-> "New", values |-> <<1>>]
        /\ resolved[p] = <<0>>
        /\ Got(c, p)
        /\ caller[c].ret = 1

====
